---- MODULE Spec2Model ----
(***************************************************************************)
(* Antigravity agent runtime: the Lifecycle Controller (phase state        *)
(* machine), the Tool Registry dispatch pipeline and the Decision Loop     *)
(* that drives one session over both.                                      *)
(*                                                                         *)
(* Time stamps and generated ids are left out: no modelled decision reads  *)
(* them.  An exit time is modelled by the flag "exited" of a history entry.*)
(***************************************************************************)
EXTENDS Integers, Sequences, FiniteSets, TLC

(***************************************************************************)
(* Bounds of the model                                                     *)
(***************************************************************************)
\* SpecLC stops calling the controller once the history holds this many entries
MaxHistory == 4
\* SpecReg makes at most this many calls of invoke
MaxInvocations == 2
\* a Planner returns plans of at most this many actions
MaxPlanLen == 2
\* config.maxSteps is any number up to this one
MaxStepLimit == 6
\* the number of create and update calls made on a ContextManager
MaxContextCalls == 3
\* the largest maxRecentResults a ContextManager is constructed with
MaxRecent == 2

\* the largest maxSteps of a run checked for termination
MaxFairSteps == 5

(***************************************************************************)
(* AgentPhase and the transition table                                     *)
(***************************************************************************)
AgentPhase ==
  {"IDLE", "PLANNING", "ACTING", "OBSERVING", "REFLECTING", "COMPLETE", "FAILED", "SUSPENDED"}

\* previousPhase before the first transition
NoPhase == "null"

VALID_TRANSITIONS_Mutant(p) ==
  CASE p = "IDLE"       -> {"PLANNING", "SUSPENDED"}
    [] p = "PLANNING"   -> {"ACTING", "REFLECTING", "FAILED", "SUSPENDED"}
    [] p = "ACTING"     -> {"OBSERVING", "REFLECTING", "FAILED", "SUSPENDED"}
    [] p = "OBSERVING"  -> {"REFLECTING", "FAILED", "SUSPENDED"}
    [] p = "REFLECTING" -> {"PLANNING", "COMPLETE", "FAILED", "SUSPENDED"}
    [] p = "SUSPENDED"  -> {"PLANNING", "FAILED"}
    [] OTHER            -> {}

VALID_TRANSITIONS(p) ==
  CASE p = "IDLE"       -> {"PLANNING", "SUSPENDED"}
    [] p = "PLANNING"   -> {"ACTING", "REFLECTING", "FAILED", "SUSPENDED"}
    [] p = "ACTING"     -> {"OBSERVING", "FAILED", "SUSPENDED"}
    [] p = "OBSERVING"  -> {"REFLECTING", "FAILED", "SUSPENDED"}
    [] p = "REFLECTING" -> {"PLANNING", "COMPLETE", "FAILED", "SUSPENDED"}
    [] p = "SUSPENDED"  -> {"PLANNING", "FAILED"}
    [] p = "COMPLETE"   -> {}
    [] p = "FAILED"     -> {}
    [] OTHER            -> {}

TERMINAL_PHASES == {"COMPLETE", "FAILED"}

(***************************************************************************)
(* LifecycleController.  The controller's fields are one record; every     *)
(* method is an operator from the record before the call to the outcome of *)
(* the call: the record after it, what was thrown and what was emitted.    *)
(***************************************************************************)
\* currentPhaseEntry = null
NoEntry == [phase |-> "null", stepNumber |-> 0, exited |-> FALSE, reason |-> ""]

Event(type, phase, to, reason, code) ==
  [type |-> type, phase |-> phase, to |-> to, reason |-> reason, code |-> code]

\* the outcome of a method call
Outcome(l, thrown, events) == [lc |-> l, thrown |-> thrown, events |-> events]

isTerminal(l) == l.currentPhase \in TERMINAL_PHASES

canTransition(l, targetPhase) == targetPhase \in VALID_TRANSITIONS(l.currentPhase)

enterPhase(l, phase, reason) ==
  Outcome([l EXCEPT !.currentPhaseEntry =
             [phase |-> phase, stepNumber |-> l.stepNumber, exited |-> FALSE, reason |-> reason]],
          "none",
          <<Event("phase:enter", phase, "", reason, "")>>)

exitPhase_Mutant(l) ==
  IF l.currentPhaseEntry # NoEntry
  THEN Outcome([l EXCEPT !.phaseHistory = Append(@, l.currentPhaseEntry),
                     !.currentPhaseEntry = NoEntry],
               "none",
               <<Event("phase:exit", l.currentPhase, "", l.currentPhaseEntry.reason, "")>>)
  ELSE Outcome(l, "none", <<>>)

exitPhase(l) ==
  IF l.currentPhaseEntry # NoEntry
  THEN Outcome([l EXCEPT !.phaseHistory =
                       Append(@, [l.currentPhaseEntry EXCEPT !.exited = TRUE]),
                     !.currentPhaseEntry = NoEntry],
               "none",
               <<Event("phase:exit", l.currentPhase, "", l.currentPhaseEntry.reason, "")>>)
  ELSE Outcome(l, "none", <<>>)

\* the state constructed by new LifecycleController()
NewLifecycle ==
  enterPhase([currentPhase |-> "IDLE", previousPhase |-> NoPhase, stepNumber |-> 0,
              phaseHistory |-> <<>>, currentPhaseEntry |-> NoEntry],
             "IDLE", "Session initialized").lc

\* getState: the fields of LifecycleState that the model keeps
getState(l) ==
  [currentPhase |-> l.currentPhase, previousPhase |-> l.previousPhase,
   stepNumber |-> l.stepNumber, phaseHistory |-> l.phaseHistory,
   isTerminal |-> isTerminal(l)]

transition_EntersFirst(l, targetPhase, reason) ==
  IF isTerminal(l)
  THEN Outcome(l, "TERMINAL_STATE",
               <<Event("error", l.currentPhase, targetPhase, "", "TERMINAL_STATE")>>)
  ELSE IF ~canTransition(l, targetPhase)
  THEN Outcome(l, "INVALID_TRANSITION",
               <<Event("error", l.currentPhase, targetPhase, "", "INVALID_TRANSITION")>>)
  ELSE
    LET ex == exitPhase(l)
        moved == [ex.lc EXCEPT !.previousPhase = l.currentPhase,
                               !.currentPhase = targetPhase,
                               !.stepNumber = IF targetPhase # "SUSPENDED" THEN @ + 1 ELSE @]
        en == enterPhase(moved, targetPhase, reason)
    IN Outcome(en.lc, "none",
               ex.events
                 \o en.events
                 \o <<Event("transition", l.currentPhase, targetPhase, reason, "")>>)

transition_CountsSuspended(l, targetPhase, reason) ==
  IF isTerminal(l)
  THEN Outcome(l, "TERMINAL_STATE",
               <<Event("error", l.currentPhase, targetPhase, "", "TERMINAL_STATE")>>)
  ELSE IF ~canTransition(l, targetPhase)
  THEN Outcome(l, "INVALID_TRANSITION",
               <<Event("error", l.currentPhase, targetPhase, "", "INVALID_TRANSITION")>>)
  ELSE
    LET ex == exitPhase(l)
        moved == [ex.lc EXCEPT !.previousPhase = l.currentPhase,
                               !.currentPhase = targetPhase,
                               !.stepNumber = @ + 1]
        en == enterPhase(moved, targetPhase, reason)
    IN Outcome(en.lc, "none",
               ex.events
                 \o <<Event("transition", l.currentPhase, targetPhase, reason, "")>>
                 \o en.events)

transition(l, targetPhase, reason) ==
  IF isTerminal(l)
  THEN Outcome(l, "TERMINAL_STATE",
               <<Event("error", l.currentPhase, targetPhase, "", "TERMINAL_STATE")>>)
  ELSE IF ~canTransition(l, targetPhase)
  THEN Outcome(l, "INVALID_TRANSITION",
               <<Event("error", l.currentPhase, targetPhase, "", "INVALID_TRANSITION")>>)
  ELSE
    LET ex == exitPhase(l)
        moved == [ex.lc EXCEPT !.previousPhase = l.currentPhase,
                               !.currentPhase = targetPhase,
                               !.stepNumber = IF targetPhase # "SUSPENDED" THEN @ + 1 ELSE @]
        en == enterPhase(moved, targetPhase, reason)
    IN Outcome(en.lc, "none",
               ex.events
                 \o <<Event("transition", l.currentPhase, targetPhase, reason, "")>>
                 \o en.events)

fail_ByTable(l, reason) ==
  IF isTerminal(l)
  THEN Outcome(l, "none", <<>>)
  ELSE transition(l, "FAILED", reason)

fail_Mutant(l, reason) ==
  LET ex == exitPhase(l)
      moved == [ex.lc EXCEPT !.previousPhase = l.currentPhase,
                             !.currentPhase = "FAILED"]
      en == enterPhase(moved, "FAILED", reason)
  IN Outcome(en.lc, "none",
             ex.events
               \o <<Event("transition", l.currentPhase, "FAILED", reason, "")>>
               \o en.events)

fail(l, reason) ==
  IF isTerminal(l)
  THEN Outcome(l, "none", <<>>)
  ELSE
    LET ex == exitPhase(l)
        moved == [ex.lc EXCEPT !.previousPhase = l.currentPhase,
                               !.currentPhase = "FAILED"]
        en == enterPhase(moved, "FAILED", reason)
    IN Outcome(en.lc, "none",
               ex.events
                 \o <<Event("transition", l.currentPhase, "FAILED", reason, "")>>
                 \o en.events)

complete_Mutant(l, reason) ==
  IF isTerminal(l)
  THEN Outcome(l, "CANNOT_COMPLETE", <<>>)
  ELSE
    LET ex == exitPhase(l)
        moved == [ex.lc EXCEPT !.previousPhase = l.currentPhase,
                               !.currentPhase = "COMPLETE",
                               !.stepNumber = @ + 1]
        en == enterPhase(moved, "COMPLETE", reason)
    IN Outcome(en.lc, "none",
               ex.events
                 \o <<Event("transition", l.currentPhase, "COMPLETE", reason, "")>>
                 \o en.events)

complete(l, reason) ==
  IF ~canTransition(l, "COMPLETE")
  THEN Outcome(l, "CANNOT_COMPLETE", <<>>)
  ELSE transition(l, "COMPLETE", reason)

suspend(l, reason) ==
  IF ~canTransition(l, "SUSPENDED")
  THEN Outcome(l, "CANNOT_SUSPEND", <<>>)
  ELSE transition(l, "SUSPENDED", reason)

resume_Mutant(l, reason) ==
  IF l.currentPhase # "SUSPENDED"
  THEN Outcome(l, "CANNOT_RESUME", <<>>)
  ELSE transition(l, IF l.previousPhase = "IDLE" THEN "PLANNING" ELSE l.previousPhase, reason)

resume(l, reason) ==
  IF l.currentPhase # "SUSPENDED"
  THEN Outcome(l, "CANNOT_RESUME", <<>>)
  ELSE transition(l, "PLANNING", reason)

(***************************************************************************)
(* ToolRegistry.  The catalog is a function from tool ids to entries; an   *)
(* id that is not in the Map has the entry NoTool.                         *)
(***************************************************************************)
ToolIds == {"echo", "reader"}

\* the tool definitions callers supply; hasValidator: definition.validate is set
ToolDefinitions(id) ==
  CASE id = "echo" ->
         [id |-> "echo", category |-> "UTILITY", permissions |-> {}, hasValidator |-> FALSE]
    [] OTHER ->
         [id |-> "reader", category |-> "FILESYSTEM", permissions |-> {"FILE_READ"},
          hasValidator |-> TRUE]

NoDefinition == [id |-> "", category |-> "", permissions |-> {}, hasValidator |-> FALSE]

NoTool == [present |-> FALSE, definition |-> NoDefinition, enabled |-> FALSE,
           invocationCount |-> 0, lastInvokedAt |-> "null"]

\* this.tools.get(toolId)
GetEntry(t, toolId) == IF toolId \in DOMAIN t THEN t[toolId] ELSE NoTool

\* inputs of a request, by what a tool's validator does with them:
\* "good" is accepted, "bad" is reported invalid, on "poison" the validator throws
Inputs == {"good", "bad", "poison"}

register_Mutant(t, cfg, definition) ==
  IF cfg.allowedCategories # {} /\ definition.category \notin cfg.allowedCategories
  THEN [tools |-> t, thrown |-> "CATEGORY_NOT_ALLOWED"]
  ELSE [tools |-> [t EXCEPT ![definition.id] =
                     [present |-> TRUE, definition |-> definition, enabled |-> TRUE,
                      invocationCount |-> 0, lastInvokedAt |-> "null"]],
        thrown |-> "none"]

register(t, cfg, definition) ==
  IF GetEntry(t, definition.id).present
  THEN [tools |-> t, thrown |-> "ALREADY_REGISTERED"]
  ELSE IF cfg.allowedCategories # {} /\ definition.category \notin cfg.allowedCategories
  THEN [tools |-> t, thrown |-> "CATEGORY_NOT_ALLOWED"]
  ELSE [tools |-> [t EXCEPT ![definition.id] =
                     [present |-> TRUE, definition |-> definition, enabled |-> TRUE,
                      invocationCount |-> 0, lastInvokedAt |-> "null"]],
        thrown |-> "none"]

unregister(t, toolId) ==
  IF toolId \in DOMAIN t THEN [t EXCEPT ![toolId] = NoTool] ELSE t

has(t, toolId) == GetEntry(t, toolId).present /\ GetEntry(t, toolId).enabled

list(t) == {id \in DOMAIN t : t[id].present /\ t[id].enabled}

setEnabled(t, toolId, enabled) ==
  IF GetEntry(t, toolId).present
  THEN [t EXCEPT ![toolId] = [@ EXCEPT !.enabled = enabled]]
  ELSE t

checkPermissions_Mutant(cfg, required) ==
  LET missing == {permission \in cfg.grantedPermissions : permission \notin required}
  IN [valid |-> missing = {}, missing |-> missing]

checkPermissions(cfg, required) ==
  LET missing == {permission \in required : permission \notin cfg.grantedPermissions}
  IN [valid |-> missing = {}, missing |-> missing]

\* a ToolResult; code "" with success: the tool's own result
ToolResult(success, code, recoverable) ==
  [success |-> success, code |-> code, recoverable |-> recoverable]

NoResult == ToolResult(FALSE, "null", FALSE)

createErrorResult(code, recoverable) == ToolResult(FALSE, code, recoverable)

updateMetrics(t, entry) ==
  [t EXCEPT ![entry.definition.id] =
     [entry EXCEPT !.invocationCount = entry.invocationCount + 1,
                   !.lastInvokedAt = "set"]]

\* One call of invoke.  stage: "none" no call; "validating" awaiting
\* validateInput; "executing" awaiting executeWithTimeout; "returned" the
\* promise resolved with result; "rejected" the promise rejected.
\* toolPromise: the promise definition.execute returned: "" not called,
\* "pending", "resolved" or "rejected".
NoInvocation ==
  [stage |-> "none", toolId |-> "", input |-> "", skipValidation |-> FALSE,
   entry |-> NoTool, validation |-> "", validateCalled |-> FALSE,
   executeCalled |-> FALSE, result |-> NoResult, settledBy |-> "", events |-> <<>>,
   toolPromise |-> ""]

Returned(call, result) == [call EXCEPT !.stage = "returned", !.result = result]

\* lines 269-286: the execution context is prepared, tool:invoked is emitted and
\* executeWithTimeout calls definition.execute and starts the timer
startExecute(call) ==
  [call EXCEPT !.stage = "executing", !.executeCalled = TRUE,
               !.events = Append(@, "tool:invoked"), !.toolPromise = "pending"]

\* validateInput: the custom validator when the definition has one
validateInput(call, definition) ==
  IF definition.hasValidator
  THEN IF call.input = "poison"
       THEN [call EXCEPT !.stage = "rejected", !.validateCalled = TRUE]
       ELSE [call EXCEPT !.stage = "validating", !.validateCalled = TRUE,
                         !.validation = IF call.input = "good" THEN "valid" ELSE "invalid"]
  ELSE [call EXCEPT !.stage = "validating", !.validation = "valid"]

invokeBegin_Mutant(t, cfg, request) ==
  LET entry == GetEntry(t, request.toolId)
      call == [NoInvocation EXCEPT !.toolId = request.toolId, !.input = request.input,
                                   !.skipValidation = request.skipValidation,
                                   !.entry = entry]
  IN IF ~entry.present
     THEN Returned(call, createErrorResult("TOOL_NOT_FOUND", FALSE))
     ELSE IF ~checkPermissions(cfg, entry.definition.permissions).valid
     THEN Returned(call, createErrorResult("PERMISSION_DENIED", FALSE))
     ELSE IF ~entry.enabled
     THEN Returned(call, createErrorResult("TOOL_DISABLED", TRUE))
     ELSE IF request.skipValidation # TRUE
     THEN validateInput(call, entry.definition)
     ELSE startExecute(call)

\* invoke up to its first await (or to its return)
invokeBegin(t, cfg, request) ==
  LET entry == GetEntry(t, request.toolId)
      call == [NoInvocation EXCEPT !.toolId = request.toolId, !.input = request.input,
                                   !.skipValidation = request.skipValidation,
                                   !.entry = entry]
  IN IF ~entry.present
     THEN Returned(call, createErrorResult("TOOL_NOT_FOUND", FALSE))
     ELSE IF ~entry.enabled
     THEN Returned(call, createErrorResult("TOOL_DISABLED", TRUE))
     ELSE IF ~checkPermissions(cfg, entry.definition.permissions).valid
     THEN Returned(call, createErrorResult("PERMISSION_DENIED", FALSE))
     ELSE IF request.skipValidation # TRUE
     THEN validateInput(call, entry.definition)
     ELSE startExecute(call)

\* invoke after the await of validateInput
invokeValidated(call) ==
  IF call.validation # "valid"
  THEN Returned(call, createErrorResult("VALIDATION_FAILED", TRUE))
  ELSE startExecute(call)

\* how the race of executeWithTimeout ends: the tool resolves with a result of
\* its own ("success", "failure"), the tool throws or rejects, or the timer fires
Settlements == {"success", "failure", "throws", "timeout"}

\* invoke after the await of executeWithTimeout: the catalog and the call
invokeSettled(t, call, how) ==
  IF how \in {"success", "failure"}
  THEN [tools |-> updateMetrics(t, call.entry),
        call |-> [Returned(call, ToolResult(how = "success",
                                            IF how = "success" THEN "" ELSE "TOOL_FAILURE",
                                            how # "success"))
                    EXCEPT !.settledBy = how, !.events = Append(@, "tool:completed"),
                           !.toolPromise = "resolved"]]
  ELSE [tools |-> t,
        call |-> [Returned(call, createErrorResult("EXECUTION_ERROR", TRUE))
                    EXCEPT !.settledBy = how, !.events = Append(@, "tool:failed"),
                           !.toolPromise = IF how = "throws" THEN "rejected" ELSE "pending"]]

\* how a tool that lost the race to the timer ends later
LateSettlements == {"resolved", "rejected"}

lateSettle_Mutant(call, how) ==
  IF how = "resolved"
  THEN [call EXCEPT !.toolPromise = how, !.events = Append(@, "tool:completed"),
                    !.result = ToolResult(TRUE, "", FALSE)]
  ELSE [call EXCEPT !.toolPromise = how]

\* lines 388-396 once the timer has rejected the race: the callbacks clear the
\* timer and call resolve or reject on a promise that is settled already
lateSettle(call, how) == [call EXCEPT !.toolPromise = how]

(***************************************************************************)
(* ContextManager.  A context is a record of the fields of MCPContext      *)
(* (memoryRefs left out).  The uuid of a context and the time of a call    *)
(* are numbers the caller of an operator passes: the manager's calls are   *)
(* numbered, and the n-th call makes id n at time n.  A session's history  *)
(* is a sequence; a session id that is not in the Map has the history <<>>.*)
(***************************************************************************)
\* new ContextManager() in the DecisionLoop constructor: maxRecentResults ?? 10
maxRecentResults == 10

\* activePlan = null
NoPlan == [isNull |-> TRUE, actions |-> <<>>, currentIndex |-> 0]

\* WorkspaceMetadata, of which rootPath and activeFile are kept
Workspace(rootPath, activeFile) == [rootPath |-> rootPath, activeFile |-> activeFile]

create(options, id, now) ==
  [id |-> id, sessionId |-> options.sessionId, version |-> 1, intent |-> options.intent,
   workspace |-> options.workspace, recentResults |-> <<>>, activePlan |-> NoPlan,
   facts |-> <<>>, constraints |-> options.constraints,
   createdAt |-> now, updatedAt |-> now]

\* combined.slice(-n): the last n elements, and for n = 0 (slice(-0) is slice(0))
\* the whole array
sliceFromEnd(combined, n) ==
  IF n = 0 \/ n >= Len(combined)
  THEN combined
  ELSE SubSeq(combined, Len(combined) - n + 1, Len(combined))

mergeResults(existing, additions, limit) ==
  LET combined == existing \o additions
  IN IF Len(combined) > limit
     THEN sliceFromEnd(combined, limit)
     ELSE combined

\* factMap.set(fact.statement, fact) on a Map kept as the sequence of its values
\* in insertion order
setFact_Mutant(factMap, fact) ==
  IF \E i \in 1..Len(factMap) : factMap[i].statement = fact.statement
  THEN factMap
  ELSE Append(factMap, fact)

setFact(factMap, fact) ==
  IF \E i \in 1..Len(factMap) : factMap[i].statement = fact.statement
  THEN [i \in 1..Len(factMap) |->
          IF factMap[i].statement = fact.statement THEN fact ELSE factMap[i]]
  ELSE Append(factMap, fact)

RECURSIVE setFacts(_, _)
setFacts(factMap, facts) ==
  IF facts = <<>> THEN factMap ELSE setFacts(setFact(factMap, Head(facts)), Tail(facts))

mergeFacts(existing, additions) == setFacts(setFacts(<<>>, existing), additions)

\* constraintMap.set(constraint.id, constraint)
setConstraint(constraintMap, constraint) ==
  IF \E i \in 1..Len(constraintMap) : constraintMap[i].id = constraint.id
  THEN [i \in 1..Len(constraintMap) |->
          IF constraintMap[i].id = constraint.id THEN constraint ELSE constraintMap[i]]
  ELSE Append(constraintMap, constraint)

RECURSIVE setConstraints(_, _)
setConstraints(constraintMap, constraints) ==
  IF constraints = <<>> THEN constraintMap
  ELSE setConstraints(setConstraint(constraintMap, Head(constraints)), Tail(constraints))

mergeConstraints(existing, additions) ==
  setConstraints(setConstraints(<<>>, existing), additions)

\* a field of Partial<WorkspaceMetadata> that is undefined or null keeps the
\* existing value (??)
mergeWorkspace(existing, updates) ==
  [rootPath |-> IF updates.rootPath \in {"undefined", "null"}
                THEN existing.rootPath ELSE updates.rootPath,
   activeFile |-> IF updates.activeFile \in {"undefined", "null"}
                  THEN existing.activeFile ELSE updates.activeFile]

\* UpdateContextOptions with nothing set; hasPlan = FALSE: updates.plan is
\* undefined; hasWorkspace = FALSE: updates.workspace is undefined
NoUpdates ==
  [addResults |-> <<>>, addFacts |-> <<>>, addConstraints |-> <<>>,
   hasPlan |-> FALSE, plan |-> NoPlan,
   hasWorkspace |-> FALSE, workspace |-> Workspace("undefined", "undefined")]

update_KeepsVersion(current, updates, limit, id, now) ==
  [id |-> id, sessionId |-> current.sessionId, version |-> current.version,
   intent |-> current.intent,
   workspace |-> IF updates.hasWorkspace
                 THEN mergeWorkspace(current.workspace, updates.workspace)
                 ELSE current.workspace,
   recentResults |-> mergeResults(current.recentResults, updates.addResults, limit),
   activePlan |-> IF updates.hasPlan THEN updates.plan ELSE current.activePlan,
   facts |-> mergeFacts(current.facts, updates.addFacts),
   constraints |-> mergeConstraints(current.constraints, updates.addConstraints),
   createdAt |-> current.createdAt, updatedAt |-> now]

update_Mutant(current, updates, limit, id, now) ==
  [id |-> id, sessionId |-> current.sessionId, version |-> current.version + 1,
   intent |-> current.intent,
   workspace |-> IF updates.hasWorkspace
                 THEN mergeWorkspace(current.workspace, updates.workspace)
                 ELSE current.workspace,
   recentResults |-> mergeResults(current.recentResults, updates.addResults, limit),
   activePlan |-> IF updates.hasPlan THEN updates.plan ELSE current.activePlan,
   facts |-> mergeFacts(current.facts, updates.addFacts),
   constraints |-> mergeConstraints(current.constraints, updates.addConstraints),
   createdAt |-> now, updatedAt |-> now]

update(current, updates, limit, id, now) ==
  [id |-> id, sessionId |-> current.sessionId, version |-> current.version + 1,
   intent |-> current.intent,
   workspace |-> IF updates.hasWorkspace
                 THEN mergeWorkspace(current.workspace, updates.workspace)
                 ELSE current.workspace,
   recentResults |-> mergeResults(current.recentResults, updates.addResults, limit),
   activePlan |-> IF updates.hasPlan THEN updates.plan ELSE current.activePlan,
   facts |-> mergeFacts(current.facts, updates.addFacts),
   constraints |-> mergeConstraints(current.constraints, updates.addConstraints),
   createdAt |-> current.createdAt, updatedAt |-> now]

AddResults_Mutant(results) == NoUpdates

AddResults(results) == [NoUpdates EXCEPT !.addResults = results]
SetPlan(plan) == [NoUpdates EXCEPT !.hasPlan = TRUE, !.plan = plan]

initializeHistory(history, sessionId, context) ==
  [history EXCEPT ![sessionId] = <<context>>]

recordHistory(history, sessionId, context) ==
  IF history[sessionId] # <<>>
  THEN [history EXCEPT ![sessionId] = Append(@, context)]
  ELSE [history EXCEPT ![sessionId] = <<context>>]

getHistory(history, sessionId) == history[sessionId]

\* the options run passes to create, and the context of a loop that has not run
LoopOptions ==
  [sessionId |-> "run", intent |-> "task", workspace |-> Workspace("root", "null"),
   constraints |-> <<>>]

NoContext == create(LoopOptions, 0, 0)

(***************************************************************************)
(* DecisionLoop: the parts of run that are pure                            *)
(***************************************************************************)
\* the message of the Error a lifecycle call throws
Message(thrown) ==
  CASE thrown = "TERMINAL_STATE"     -> "Cannot transition from terminal state"
    [] thrown = "INVALID_TRANSITION" -> "Invalid transition"
    [] thrown = "CANNOT_COMPLETE"    -> "Cannot complete from phase"
    [] thrown = "CANNOT_SUSPEND"     -> "Cannot suspend from phase"
    [] OTHER                         -> "Can only resume from SUSPENDED state"

createStep(stepNumber, phase, toolId, outcome) ==
  [stepNumber |-> stepNumber, phase |-> phase, toolId |-> toolId, outcome |-> outcome]

createResult(success, reason, stps, ctx) ==
  [success |-> success, reason |-> reason, steps |-> stps, finalContext |-> ctx]

NoLoopResult == createResult(FALSE, "null", <<>>, NoContext)

\* lines 261-271: the result once the main loop is left
finalResult_Mutant(l, stps, ctx) ==
  LET success == isTerminal(l)
  IN createResult(success,
                  IF success THEN "Task completed successfully" ELSE "Task failed",
                  stps, ctx)

finalResult(l, stps, ctx) ==
  LET success == l.currentPhase = "COMPLETE"
  IN createResult(success,
                  IF success THEN "Task completed successfully" ELSE "Task failed",
                  stps, ctx)

\* lines 273-277: the catch block of run
runCatch_Mutant(l, message, stps, ctx) ==
  [lc |-> fail(l, message).lc, result |-> createResult(FALSE, "Task failed", stps, ctx)]

runCatch(l, message, stps, ctx) ==
  [lc |-> fail(l, message).lc, result |-> createResult(FALSE, message, stps, ctx)]

\* DecisionLoop.stop while a run is active
stop_Mutant(l, reason) == [isRunning |-> FALSE, lc |-> l]

stop(l, reason) == [isRunning |-> FALSE, lc |-> fail(l, reason).lc]

\* plan.actions.find(a => a.status === PENDING): its index, 0 when there is none
PendingIndexes(actions) == {i \in 1..Len(actions) : actions[i].status = "PENDING"}

nextActionIndex_Mutant(actions) ==
  LET ready == {i \in PendingIndexes(actions) :
                  \A d \in actions[i].dependsOn : actions[d].status # "PENDING"}
  IN IF ready = {} THEN 0 ELSE CHOOSE i \in ready : \A j \in ready : i <= j

nextActionIndex(actions) ==
  IF PendingIndexes(actions) = {} THEN 0
  ELSE CHOOSE i \in PendingIndexes(actions) : \A j \in PendingIndexes(actions) : i <= j

\* lines 419-429: the plan with the executed action's status set
updatedPlan_MarksAll(plan, actionId, success) ==
  [plan EXCEPT
     !.actions = [i \in 1..Len(plan.actions) |->
                    [plan.actions[i] EXCEPT
                       !.status = IF success THEN "COMPLETED" ELSE "FAILED"]],
     !.currentIndex = plan.currentIndex + 1]

updatedPlan_KeepsPending(plan, actionId, success) ==
  [plan EXCEPT !.currentIndex = plan.currentIndex + 1]

updatedPlan_Mutant(plan, actionId, success) ==
  [plan EXCEPT
     !.actions = [i \in 1..Len(plan.actions) |->
                    IF plan.actions[i].id = actionId
                    THEN [plan.actions[i] EXCEPT
                            !.status = IF success THEN "FAILED" ELSE "COMPLETED"]
                    ELSE plan.actions[i]],
     !.currentIndex = plan.currentIndex + 1]

updatedPlan(plan, actionId, success) ==
  [plan EXCEPT
     !.actions = [i \in 1..Len(plan.actions) |->
                    IF plan.actions[i].id = actionId
                    THEN [plan.actions[i] EXCEPT
                            !.status = IF success THEN "COMPLETED" ELSE "FAILED"]
                    ELSE plan.actions[i]],
     !.currentIndex = plan.currentIndex + 1]

(***************************************************************************)
(* State                                                                   *)
(***************************************************************************)
VARIABLES
  lifecycle,   \* the LifecycleController's fields
  lcCall,      \* the last call made on the controller and how it ended
  tools,       \* ToolRegistry.tools
  config,      \* ToolRegistry.config
  inv,         \* per caller of invoke: its call in progress or its last call
  started,     \* number of invoke calls made so far
  pc,          \* where run is: not called, at the top of the main loop, at an await, returned
  isRunning,   \* DecisionLoop.isRunning
  context,     \* DecisionLoop.context
  steps,       \* DecisionLoop.steps
  ctxHistory,  \* ContextManager.history of the run's session
  frame,       \* the locals of the phase method that is at an await
  result,      \* the LoopResult run returned
  emitted,     \* the events the loop emitted, in order
  maxSteps,    \* config.maxSteps
  obs,         \* what happened to the run: external calls and strategy exceptions
  manager,     \* a ContextManager: maxRecentResults, history, number of calls made
  cmCall,      \* the last call made on the manager: its arguments and its result
  runs         \* per call of run that may overlap another: where it is and its locals

lcVars == <<lifecycle, lcCall>>
regVars == <<tools, config, inv, started>>
loopVars == <<pc, isRunning, context, steps, ctxHistory, frame, result, emitted, maxSteps, obs>>
cmVars == <<manager, cmCall>>
runVars == <<runs>>
vars == <<lifecycle, lcCall, tools, config, inv, started,
          pc, isRunning, context, steps, ctxHistory, frame, result, emitted, maxSteps, obs,
          manager, cmCall, runs>>

\* reasons a caller of the controller passes
Reasons == {"first", "second"}

NoCall == [op |-> "new", target |-> "", reason |-> "", thrown |-> "none",
           events |-> <<>>, pre |-> NewLifecycle, canBefore |-> FALSE]

Call(op, target, reason, out) ==
  [op |-> op, target |-> target, reason |-> reason, thrown |-> out.thrown,
   events |-> out.events, pre |-> lifecycle, canBefore |-> canTransition(lifecycle, target)]

(***************************************************************************)
(* The registry's state and its callers                                    *)
(***************************************************************************)
\* the Decision Loop and two other clients of the shared registry
Clients == {"client1", "client2"}
Callers == {"loop"} \cup Clients

\* configurations a registry is constructed with
Configs ==
  {[grantedPermissions |-> {}, allowedCategories |-> {}],
   [grantedPermissions |-> {"FILE_READ"}, allowedCategories |-> {}],
   [grantedPermissions |-> {"FILE_READ"}, allowedCategories |-> {"FILESYSTEM"}]}

\* the configurations of SpecReg: nothing granted and every category allowed
\* (the default), or FILE_READ granted and only FILESYSTEM tools allowed
RegistryConfigs == {cfg \in Configs : cfg.grantedPermissions = {} <=> cfg.allowedCategories = {}}

DEFAULT_REGISTRY_CONFIG == [grantedPermissions |-> {}, allowedCategories |-> {}]

\* the requests clients make; an id is unknown to the registry while it is not
\* registered; skipValidation is tried with an input the validator would refuse
Requests ==
  {request \in [toolId : ToolIds, input : Inputs, skipValidation : BOOLEAN] :
     request.skipValidation => request.input = "bad"}

\* new ToolRegistry(config)
InitRegistry(cfg) ==
  /\ tools = [id \in ToolIds |-> NoTool]
  /\ config = cfg
  /\ inv = [c \in Callers |-> NoInvocation]
  /\ started = 0

(***************************************************************************)
(* The Decision Loop's state before run is called                          *)
(***************************************************************************)
\* DEFAULT_AGENT_CONFIG.maxSteps
DEFAULT_MAX_STEPS == 50

NoFrame == [stepNumber |-> 0, plan |-> NoPlan, actionIndex |-> 0]

\* nothing has happened to the run yet
NoObs == [stoppedAt |-> "", suspendedAt |-> "", startedAfterStop |-> FALSE,
          strategyThrew |-> "", stepLimitHit |-> FALSE, reflections |-> <<>>]

\* new DecisionLoop(config, toolRegistry)
\* the calls of run that SpecTwo lets overlap on one DecisionLoop
RunIds == {"run1", "run2"}

\* a call of run that has not been made: its position, the sessionId it will
\* draw, the locals of its phase method, its call of invoke, what it returned,
\* and the steps it has pushed itself
NotStarted(r) ==
  [pc |-> "idle", sessionId |-> IF r = "run1" THEN "s1" ELSE "s2",
   frame |-> NoFrame, call |-> NoInvocation, result |-> NoLoopResult, pushed |-> <<>>]

NoRun(limit) ==
  /\ pc = "idle"
  /\ runs = [r \in RunIds |-> NotStarted(r)]
  /\ isRunning = FALSE
  /\ context = NoContext
  /\ steps = <<>>
  /\ ctxHistory = <<>>
  /\ frame = NoFrame
  /\ result = NoLoopResult
  /\ emitted = <<>>
  /\ maxSteps = limit
  /\ obs = NoObs

(***************************************************************************)
(* A ContextManager's state and its callers' inputs                        *)
(***************************************************************************)
SessionIds == {"s1", "s2"}

\* new ContextManager({ maxRecentResults: limit })
NewManager(limit) ==
  [maxRecentResults |-> limit, history |-> [s \in SessionIds |-> <<>>], calls |-> 0]

NoCmCall ==
  [op |-> "new", current |-> NoContext, updates |-> NoUpdates, result |-> NoContext,
   before |-> [s \in SessionIds |-> <<>>]]

\* new ContextManager() on which no call has been made
NoContextCalls ==
  /\ manager = NewManager(maxRecentResults)
  /\ cmCall = NoCmCall

Constraint(id, mandatory) == [id |-> id, mandatory |-> mandatory]

\* CreateContextOptions of the two sessions
OptionsOf(sessionId) ==
  IF sessionId = "s1"
  THEN [sessionId |-> "s1", intent |-> "task", workspace |-> Workspace("root", "null"),
        constraints |-> <<>>]
  ELSE [sessionId |-> "s2", intent |-> "other", workspace |-> Workspace("root", "null"),
        constraints |-> <<Constraint("k1", FALSE)>>]

\* the i-th ToolResult a caller adds in the n-th call: every result has its own id
ResultNo(n, i) == [success |-> TRUE, code |-> "", recoverable |-> FALSE, id |-> <<n, i>>]

Fact(statement, confidence) == [statement |-> statement, confidence |-> confidence]

\* addFacts of an update: one fact, or two that may share their statement
FactLists ==
  {<<Fact("a", 1)>>, <<Fact("a", 2)>>, <<Fact("b", 1)>>,
   <<Fact("a", 1), Fact("a", 2)>>, <<Fact("a", 2), Fact("a", 1)>>,
   <<Fact("b", 1), Fact("a", 1)>>}

\* UpdateContextOptions of the n-th call
UpdatesOf(n) ==
  {NoUpdates, AddResults(<<ResultNo(n, 1)>>), AddResults(<<ResultNo(n, 1), ResultNo(n, 2)>>)}
  \cup {[NoUpdates EXCEPT !.addFacts = facts] : facts \in FactLists}
  \cup {[NoUpdates EXCEPT !.addConstraints = <<Constraint("k1", TRUE)>>],
        SetPlan([NoPlan EXCEPT !.isNull = FALSE]),
        [NoUpdates EXCEPT !.hasWorkspace = TRUE,
                          !.workspace = Workspace("undefined", "file")]}

(***************************************************************************)
(* SpecLC: a client calls the controller's public methods in any order     *)
(***************************************************************************)
InitLC ==
  /\ lifecycle = NewLifecycle
  /\ lcCall = NoCall
  /\ InitRegistry(DEFAULT_REGISTRY_CONFIG)
  /\ NoRun(DEFAULT_MAX_STEPS)
  /\ NoContextCalls

LcMayCall == Len(lifecycle.phaseHistory) < MaxHistory

LcTransition ==
  /\ LcMayCall
  /\ \E t \in AgentPhase, r \in Reasons :
       LET out == transition(lifecycle, t, r)
       IN /\ lifecycle' = out.lc
          /\ lcCall' = Call("transition", t, r, out)
          /\ UNCHANGED <<regVars, loopVars, cmVars, runVars>>

LcFail ==
  /\ LcMayCall
  /\ \E r \in Reasons :
       LET out == fail(lifecycle, r)
       IN /\ lifecycle' = out.lc
          /\ lcCall' = Call("fail", "FAILED", r, out)
          /\ UNCHANGED <<regVars, loopVars, cmVars, runVars>>

LcComplete ==
  /\ LcMayCall
  /\ \E r \in Reasons :
       LET out == complete(lifecycle, r)
       IN /\ lifecycle' = out.lc
          /\ lcCall' = Call("complete", "COMPLETE", r, out)
          /\ UNCHANGED <<regVars, loopVars, cmVars, runVars>>

LcSuspend ==
  /\ LcMayCall
  /\ \E r \in Reasons :
       LET out == suspend(lifecycle, r)
       IN /\ lifecycle' = out.lc
          /\ lcCall' = Call("suspend", "SUSPENDED", r, out)
          /\ UNCHANGED <<regVars, loopVars, cmVars, runVars>>

LcResume ==
  /\ LcMayCall
  /\ \E r \in Reasons :
       LET out == resume(lifecycle, r)
       IN /\ lifecycle' = out.lc
          /\ lcCall' = Call("resume", "PLANNING", r, out)
          /\ UNCHANGED <<regVars, loopVars, cmVars, runVars>>

NextLC == LcTransition \/ LcFail \/ LcComplete \/ LcSuspend \/ LcResume

SpecLC == InitLC /\ [][NextLC]_vars

(***************************************************************************)
(* SpecReg: clients register, unregister, enable, disable and invoke tools *)
(* on one registry; calls of invoke overlap at its awaits                  *)
(***************************************************************************)
InitReg ==
  /\ \E cfg \in RegistryConfigs : InitRegistry(cfg)
  /\ lifecycle = NewLifecycle
  /\ lcCall = NoCall
  /\ NoRun(DEFAULT_MAX_STEPS)
  /\ NoContextCalls

Register ==
  /\ \E id \in ToolIds : tools' = register(tools, config, ToolDefinitions(id)).tools
  /\ UNCHANGED <<config, inv, started, lcVars, loopVars, cmVars, runVars>>

Unregister ==
  /\ \E id \in ToolIds : tools' = unregister(tools, id)
  /\ UNCHANGED <<config, inv, started, lcVars, loopVars, cmVars, runVars>>

SetEnabled ==
  /\ \E id \in ToolIds, enabled \in BOOLEAN : tools' = setEnabled(tools, id, enabled)
  /\ UNCHANGED <<config, inv, started, lcVars, loopVars, cmVars, runVars>>

InFlight(c) == inv[c].stage \in {"validating", "executing"}

\* a client calls invoke: the code up to the first await
Invoke ==
  /\ started < MaxInvocations
  /\ \E c \in Clients, request \in Requests :
       /\ ~InFlight(c)
       \* the clients are alike: client1 is the first to call
       /\ c = "client2" => inv["client1"].stage # "none"
       /\ inv' = [inv EXCEPT ![c] = invokeBegin(tools, config, request)]
  /\ started' = started + 1
  /\ UNCHANGED <<tools, config, lcVars, loopVars, cmVars, runVars>>

\* the await of validateInput is over
InvokeValidated ==
  /\ \E c \in Clients :
       /\ inv[c].stage = "validating"
       /\ inv' = [inv EXCEPT ![c] = invokeValidated(inv[c])]
  /\ UNCHANGED <<tools, config, started, lcVars, loopVars, cmVars, runVars>>

\* the race of executeWithTimeout is over
InvokeSettled ==
  /\ \E c \in Clients, how \in Settlements :
       /\ inv[c].stage = "executing"
       /\ LET after == invokeSettled(tools, inv[c], how)
          IN /\ tools' = after.tools
             /\ inv' = [inv EXCEPT ![c] = after.call]
  /\ UNCHANGED <<config, started, lcVars, loopVars, cmVars, runVars>>

\* the tool of a call that timed out settles after invoke has returned
ToolSettlesLate ==
  /\ \E c \in Clients, how \in LateSettlements :
       /\ inv[c].stage = "returned"
       /\ inv[c].toolPromise = "pending"
       /\ inv' = [inv EXCEPT ![c] = lateSettle(inv[c], how)]
  /\ UNCHANGED <<tools, config, started, lcVars, loopVars, cmVars, runVars>>

NextReg ==
  \/ Register \/ Unregister \/ SetEnabled
  \/ Invoke \/ InvokeValidated \/ InvokeSettled \/ ToolSettlesLate

SpecReg == InitReg /\ [][NextReg]_vars

(***************************************************************************)
(* SpecCM: clients call create and update on one ContextManager, for two   *)
(* session ids, with the contexts the manager gave them                    *)
(***************************************************************************)
InitCM ==
  /\ \E limit \in 0..MaxRecent : manager = NewManager(limit)
  /\ cmCall = NoCmCall
  /\ lifecycle = NewLifecycle
  /\ lcCall = NoCall
  /\ InitRegistry(DEFAULT_REGISTRY_CONFIG)
  /\ NoRun(DEFAULT_MAX_STEPS)

CmMayCall == manager.calls < MaxContextCalls

CmCreate ==
  /\ CmMayCall
  /\ \E sessionId \in SessionIds :
       LET n == manager.calls + 1
           ctx == create(OptionsOf(sessionId), n, n)
       IN /\ manager' = [manager EXCEPT
                           !.history = initializeHistory(@, sessionId, ctx),
                           !.calls = n]
          /\ cmCall' = [op |-> "create", current |-> NoContext, updates |-> NoUpdates,
                        result |-> ctx, before |-> manager.history]
  /\ UNCHANGED <<lcVars, regVars, loopVars, runVars>>

\* the contexts a client passes to update: the one the last call returned, and
\* the first of a session's history
Held ==
  (IF cmCall.op = "new" THEN {} ELSE {cmCall.result})
  \cup {manager.history[s][1] : s \in {t \in SessionIds : manager.history[t] # <<>>}}

CmUpdate ==
  /\ CmMayCall
  /\ \E current \in Held, updates \in UpdatesOf(manager.calls + 1) :
       LET n == manager.calls + 1
           ctx == update(current, updates, manager.maxRecentResults, n, n)
       IN /\ manager' = [manager EXCEPT
                           !.history = recordHistory(@, current.sessionId, ctx),
                           !.calls = n]
          /\ cmCall' = [op |-> "update", current |-> current, updates |-> updates,
                        result |-> ctx, before |-> manager.history]
  /\ UNCHANGED <<lcVars, regVars, loopVars, runVars>>

NextCM == CmCreate \/ CmUpdate

SpecCM == InitCM /\ [][NextCM]_vars

(***************************************************************************)
(* Spec: one call of DecisionLoop.run on a registry that holds both tools, *)
(* with stop and suspend called from outside at the awaits.  The code      *)
(* between two awaits runs without interruption; pc = "sync" is the top of *)
(* the main loop reached without an await (after executeObservingPhase and *)
(* at the start of run), where nothing can be interleaved.                 *)
(***************************************************************************)
\* what a Planner may put in a plan: a tool and the kind of input it passes:
\* the echo tool, which needs no permission, and the reader with an input its
\* validator throws on (the reader is refused for its permission under a
\* configuration that does not grant FILE_READ, and dispatched under one that does)
PlannedTargets ==
  {[toolId |-> "echo", input |-> "good"],
   [toolId |-> "reader", input |-> "poison"]}

\* the plan a Planner returns for these targets.  Every action declares a
\* dependency on the action listed after it and the last action alone has
\* priority HIGH, so that an execution order that looked at dependsOn or at
\* priority would differ from the list order.
PlanOf(targets) ==
  [isNull |-> FALSE,
   actions |-> [i \in 1..Len(targets) |->
                  [id |-> i, toolId |-> targets[i].toolId, input |-> targets[i].input,
                   dependsOn |-> IF i < Len(targets) THEN {i + 1} ELSE {},
                   priority |-> IF i = Len(targets) THEN "HIGH" ELSE "LOW",
                   status |-> "PENDING"]],
   currentIndex |-> 0]

\* the plans a Planner may return
Plans == {PlanOf(targets) : targets \in UNION {[1..n -> PlannedTargets] : n \in 0..MaxPlanLen}}

\* what a Reflector may return: shouldContinue, or stop with isSuccess or without
Reflections == {"continue", "success", "failure"}

\* `Action failed: ${lastResult.error?.message ?? 'Unknown error'}`
ActionFailed(code) ==
  CASE code = "PERMISSION_DENIED" -> "Action failed: Missing permissions: FILE_READ"
    [] code = "EXECUTION_ERROR"   -> "Action failed: execution error"
    [] code = "TOOL_FAILURE"      -> "Action failed: tool failure"
    [] OTHER                      -> "Action failed: Unknown error"

\* the reason a Reflector gives with its decision; when it stops without success
\* it reports the error of the last result
ReflectionReason(d, ctx) ==
  CASE d = "continue" -> "Continuing to next iteration"
    [] d = "success"  -> "Completed planned iterations"
    [] OTHER          ->
         IF ctx.recentResults # <<>>
         THEN ActionFailed(ctx.recentResults[Len(ctx.recentResults)].code)
         ELSE ActionFailed("")

\* the registry after register(echo) and register(reader)
BothRegistered(cfg) ==
  register(register([id \in ToolIds |-> NoTool], cfg, ToolDefinitions("echo")).tools,
           cfg, ToolDefinitions("reader")).tools

Init ==
  /\ \E cfg \in {c \in Configs : c.allowedCategories = {}} :
       /\ tools = BothRegistered(cfg)
       /\ config = cfg
  /\ inv = [c \in Callers |-> NoInvocation]
  /\ started = 0
  /\ lifecycle = NewLifecycle
  /\ lcCall = NoCall
  /\ \E limit \in 0..MaxStepLimit : NoRun(limit)
  /\ NoContextCalls

\* run goes on at pc = at
GoOn(l, ctx, stps, hist, em, at) ==
  /\ lifecycle' = l
  /\ context' = ctx
  /\ steps' = stps
  /\ ctxHistory' = hist
  /\ emitted' = em
  /\ pc' = at
  /\ UNCHANGED <<isRunning, result>>

\* run returns res; the finally block clears isRunning
Return(l, ctx, stps, hist, em, res) ==
  /\ lifecycle' = l
  /\ context' = ctx
  /\ steps' = stps
  /\ ctxHistory' = hist
  /\ emitted' = em
  /\ result' = res
  /\ isRunning' = FALSE
  /\ pc' = "returned"

\* an exception with this message reaches the catch block of run
Caught_Mutant(l, message, ctx, stps, hist, em) ==
  LET c == runCatch(l, message, stps, ctx)
  IN Return(c.lc, ctx, stps, hist, em, c.result)

Caught(l, message, ctx, stps, hist, em) ==
  LET c == runCatch(l, message, stps, ctx)
  IN Return(c.lc, ctx, stps, hist, Append(em, "loop:failed"), c.result)

\* lines 261-271: the main loop is left
LeaveLoop(l, ctx, stps, hist, em) ==
  LET res == finalResult(l, stps, ctx)
  IN Return(l, ctx, stps, hist,
            Append(em, IF res.success THEN "loop:complete" ELSE "loop:failed"), res)

\* a lifecycle call made inside the try block: on a throw the catch block runs
Try(out, ctx, stps, hist, em, at) ==
  IF out.thrown # "none"
  THEN Caught(out.lc, Message(out.thrown), ctx, stps, hist, em)
  ELSE GoOn(out.lc, ctx, stps, hist, em, at)

Awaits == {"awaitPlanner", "awaitTool", "awaitReflector"}

\* a strategy or a tool is called: remember whether stop had been called
Starting == [obs EXCEPT !.startedAfterStop = @ \/ obs.stoppedAt # ""]

\* lines 198-222: run up to the first test of the while condition
RunStart ==
  /\ pc = "idle"
  /\ LET out == transition(NewLifecycle, "PLANNING", "Beginning task execution")
     IN /\ lifecycle' = out.lc
        /\ pc' = "sync"
  /\ steps' = <<>>
  /\ isRunning' = TRUE
  /\ context' = create(LoopOptions, 1, 1)
  /\ ctxHistory' = <<create(LoopOptions, 1, 1)>>
  /\ emitted' = <<"loop:start">>
  /\ UNCHANGED <<frame, result, maxSteps, cmVars, runVars, obs, regVars, lcCall>>

AtTop == pc \in {"top", "sync"}

\* line 224: the while condition is false
LoopExit ==
  /\ AtTop
  /\ ~(isRunning /\ ~isTerminal(lifecycle))
  /\ LeaveLoop(lifecycle, context, steps, ctxHistory, emitted)
  /\ UNCHANGED <<frame, maxSteps, cmVars, runVars, obs, regVars, lcCall>>

\* lines 226-229: the step limit is reached
StepLimit ==
  /\ AtTop
  /\ isRunning /\ ~isTerminal(lifecycle)
  /\ lifecycle.stepNumber >= maxSteps
  /\ LeaveLoop(fail(lifecycle, "Exceeded maximum steps").lc,
               context, steps, ctxHistory, emitted)
  /\ obs' = [obs EXCEPT !.stepLimitHit = TRUE]
  /\ UNCHANGED <<frame, maxSteps, cmVars, runVars, regVars, lcCall>>

\* the switch of line 233 is reached with this phase
InPhase_Mutant(phase) ==
  /\ AtTop
  /\ isRunning /\ ~isTerminal(lifecycle)
  /\ lifecycle.stepNumber <= maxSteps
  /\ lifecycle.currentPhase = phase

InPhase(phase) ==
  /\ AtTop
  /\ isRunning /\ ~isTerminal(lifecycle)
  /\ lifecycle.stepNumber < maxSteps
  /\ lifecycle.currentPhase = phase

\* executePlanningPhase up to the await of the planner
PlanningStart ==
  /\ InPhase("PLANNING")
  /\ frame' = [NoFrame EXCEPT !.stepNumber = lifecycle.stepNumber]
  /\ emitted' = Append(emitted, "planning:start")
  /\ pc' = "awaitPlanner"
  /\ obs' = Starting
  /\ UNCHANGED <<lifecycle, isRunning, context, steps, ctxHistory, result, maxSteps, cmVars, runVars,
                 regVars, lcCall>>

\* executePlanningPhase after the planner returned a plan
PlannerReturns ==
  /\ pc = "awaitPlanner"
  /\ \E plan \in Plans :
       LET ctx == update(context, SetPlan(plan), maxRecentResults,
                        Len(ctxHistory) + 1, Len(ctxHistory) + 1)
           stps == Append(steps, createStep(frame.stepNumber, "PLANNING", "", "SUCCESS"))
       IN Try(transition(lifecycle, "ACTING", "Plan created, beginning execution"),
              ctx, stps, Append(ctxHistory, ctx),
              emitted \o <<"loop:step", "planning:complete">>, "top")
  /\ UNCHANGED <<frame, maxSteps, cmVars, runVars, obs, regVars, lcCall>>

\* the planner threw or its promise rejected
PlannerThrows ==
  /\ pc = "awaitPlanner"
  /\ Caught(lifecycle, "planner error", context, steps, ctxHistory, emitted)
  /\ obs' = [obs EXCEPT !.strategyThrew = "planner error"]
  /\ UNCHANGED <<frame, maxSteps, cmVars, runVars, regVars, lcCall>>

\* executeActingPhase when there is no plan or no PENDING action
ActingNoPending ==
  /\ InPhase("ACTING")
  /\ \/ context.activePlan.isNull
     \/ nextActionIndex(context.activePlan.actions) = 0
  /\ IF context.activePlan.isNull
     THEN GoOn(fail(lifecycle, "No active plan").lc,
               context, steps, ctxHistory, emitted, "top")
     ELSE Try(transition(lifecycle, "OBSERVING", "All planned actions executed"),
              context, steps, ctxHistory, emitted, "top")
  /\ UNCHANGED <<frame, maxSteps, cmVars, runVars, obs, regVars, lcCall>>

\* executeActingPhase up to the await of toolRegistry.invoke
ActingInvoke ==
  /\ InPhase("ACTING")
  /\ ~context.activePlan.isNull
  /\ nextActionIndex(context.activePlan.actions) # 0
  /\ LET plan == context.activePlan
         index == nextActionIndex(plan.actions)
         nextAction == plan.actions[index]
     IN /\ frame' = [stepNumber |-> lifecycle.stepNumber, plan |-> plan,
                     actionIndex |-> index]
        /\ inv' = [inv EXCEPT !["loop"] =
                     invokeBegin(tools, config,
                                 [toolId |-> nextAction.toolId, input |-> nextAction.input,
                                  skipValidation |-> FALSE])]
  /\ started' = started + 1
  /\ emitted' = Append(emitted, "action:start")
  /\ pc' = "awaitTool"
  /\ obs' = Starting
  /\ UNCHANGED <<lifecycle, isRunning, context, steps, ctxHistory, result, maxSteps, cmVars, runVars,
                 tools, config, lcCall>>

\* the loop's call of invoke: the await of validateInput is over
LoopToolValidated ==
  /\ pc = "awaitTool"
  /\ inv["loop"].stage = "validating"
  /\ inv' = [inv EXCEPT !["loop"] = invokeValidated(inv["loop"])]
  /\ UNCHANGED <<tools, config, started, lcVars, loopVars, cmVars, runVars>>

\* the loop's call of invoke: the race of executeWithTimeout is over
LoopToolSettled ==
  /\ pc = "awaitTool"
  /\ inv["loop"].stage = "executing"
  /\ \E how \in Settlements :
       LET after == invokeSettled(tools, inv["loop"], how)
       IN /\ tools' = after.tools
          /\ inv' = [inv EXCEPT !["loop"] = after.call]
  /\ UNCHANGED <<config, started, lcVars, loopVars, cmVars, runVars>>

\* executeActingPhase after the await of invoke (lines 394-454)
ToolReturns_Mutant ==
  /\ pc = "awaitTool"
  /\ inv["loop"].stage \in {"returned", "rejected"}
  /\ LET toolResult == IF inv["loop"].stage = "returned"
                       THEN inv["loop"].result
                       ELSE ToolResult(FALSE, "EXECUTION_ERROR", TRUE)
         plan == frame.plan
         nextAction == plan.actions[frame.actionIndex]
         ctx1 == update(context, AddResults(<<toolResult>>), maxRecentResults,
                        Len(ctxHistory) + 1, Len(ctxHistory) + 1)
         newPlan == updatedPlan(plan, nextAction.id, toolResult.success)
         ctx2 == update(ctx1, SetPlan(newPlan), maxRecentResults,
                        Len(ctxHistory) + 2, Len(ctxHistory) + 2)
         stps == Append(steps, createStep(frame.stepNumber, "ACTING", nextAction.toolId,
                                          IF toolResult.success THEN "SUCCESS" ELSE "FAILURE"))
         hist == ctxHistory \o <<ctx1, ctx2>>
         em == emitted \o <<"loop:step", "action:complete">>
     IN IF PendingIndexes(newPlan.actions) = {}
        THEN Try(transition(lifecycle, "OBSERVING", "Proceeding to observation"),
                 ctx2, stps, hist, em, "top")
        ELSE GoOn(lifecycle, ctx2, stps, hist, em, "top")
  /\ UNCHANGED <<frame, maxSteps, cmVars, runVars, obs, regVars, lcCall>>

ToolReturns ==
  /\ pc = "awaitTool"
  /\ inv["loop"].stage \in {"returned", "rejected"}
  /\ LET toolResult == IF inv["loop"].stage = "returned"
                       THEN inv["loop"].result
                       ELSE ToolResult(FALSE, "EXECUTION_ERROR", TRUE)
         plan == frame.plan
         nextAction == plan.actions[frame.actionIndex]
         ctx1 == update(context, AddResults(<<toolResult>>), maxRecentResults,
                        Len(ctxHistory) + 1, Len(ctxHistory) + 1)
         newPlan == updatedPlan(plan, nextAction.id, toolResult.success)
         ctx2 == update(ctx1, SetPlan(newPlan), maxRecentResults,
                        Len(ctxHistory) + 2, Len(ctxHistory) + 2)
         stps == Append(steps, createStep(frame.stepNumber, "ACTING", nextAction.toolId,
                                          IF toolResult.success THEN "SUCCESS" ELSE "FAILURE"))
         hist == ctxHistory \o <<ctx1, ctx2>>
         em == emitted \o <<"loop:step", "action:complete">>
     IN IF PendingIndexes(newPlan.actions) = {} \/ ~toolResult.success
        THEN Try(transition(lifecycle, "OBSERVING", "Proceeding to observation"),
                 ctx2, stps, hist, em, "top")
        ELSE GoOn(lifecycle, ctx2, stps, hist, em, "top")
  /\ UNCHANGED <<frame, maxSteps, cmVars, runVars, obs, regVars, lcCall>>

\* executeObservingPhase: no await, the next iteration follows at once
Observing ==
  /\ InPhase("OBSERVING")
  /\ Try(transition(lifecycle, "REFLECTING", "Results observed, reflecting"),
         context,
         Append(steps, createStep(lifecycle.stepNumber, "OBSERVING", "", "SUCCESS")),
         ctxHistory, Append(emitted, "loop:step"), "sync")
  /\ UNCHANGED <<frame, maxSteps, cmVars, runVars, obs, regVars, lcCall>>

\* executeReflectingPhase up to the await of the reflector
ReflectingStart ==
  /\ InPhase("REFLECTING")
  /\ frame' = [NoFrame EXCEPT !.stepNumber = lifecycle.stepNumber]
  /\ emitted' = Append(emitted, "reflection:start")
  /\ pc' = "awaitReflector"
  /\ obs' = Starting
  /\ UNCHANGED <<lifecycle, isRunning, context, steps, ctxHistory, result, maxSteps, cmVars, runVars,
                 regVars, lcCall>>

\* executeReflectingPhase after the reflector returned
ReflectorReturns ==
  /\ pc = "awaitReflector"
  /\ \E d \in Reflections :
       /\ Try(CASE d = "continue" ->
                     transition(lifecycle, "PLANNING", "Continuing with next iteration")
                [] d = "success" -> complete(lifecycle, ReflectionReason(d, context))
                [] OTHER -> fail(lifecycle, ReflectionReason(d, context)),
              context,
              Append(steps, createStep(frame.stepNumber, "REFLECTING", "", "SUCCESS")),
              ctxHistory, emitted \o <<"reflection:complete", "loop:step">>, "top")
       /\ obs' = [obs EXCEPT !.reflections = Append(@, d)]
  /\ UNCHANGED <<frame, maxSteps, cmVars, runVars, regVars, lcCall>>

\* the reflector threw or its promise rejected
ReflectorThrows ==
  /\ pc = "awaitReflector"
  /\ Caught(lifecycle, "reflector error", context, steps, ctxHistory, emitted)
  /\ obs' = [obs EXCEPT !.strategyThrew = "reflector error"]
  /\ UNCHANGED <<frame, maxSteps, cmVars, runVars, regVars, lcCall>>

\* lines 250-253: the loop finds the phase SUSPENDED
SuspendedReturn ==
  /\ InPhase("SUSPENDED")
  /\ Return(lifecycle, context, steps, ctxHistory, Append(emitted, "loop:suspended"),
            createResult(FALSE, "Suspended", steps, context))
  /\ UNCHANGED <<frame, maxSteps, cmVars, runVars, obs, regVars, lcCall>>

\* where a call from outside can come in: at an await of run or of a phase method
Interleavable == pc \in Awaits \cup {"top"}

\* DecisionLoop.stop() from outside while the run is active
Stop ==
  /\ Interleavable
  /\ isRunning
  /\ LET st == stop(lifecycle, "Stopped by user")
     IN /\ isRunning' = st.isRunning
        /\ lifecycle' = st.lc
  /\ obs' = [obs EXCEPT !.stoppedAt = pc]
  /\ UNCHANGED <<pc, context, steps, ctxHistory, frame, result, emitted, maxSteps, cmVars, runVars,
                 regVars, lcCall>>

\* DecisionLoop.suspend() from outside while the run is active; when the
\* controller refuses, the error goes to the caller of suspend
Suspend ==
  /\ Interleavable
  /\ isRunning
  /\ LET out == suspend(lifecycle, "Suspended by user")
     IN /\ lifecycle' = out.lc
        /\ obs' = IF out.thrown = "none" /\ obs.suspendedAt = ""
                  THEN [obs EXCEPT !.suspendedAt = pc]
                  ELSE obs
  /\ UNCHANGED <<pc, isRunning, context, steps, ctxHistory, frame, result, emitted,
                 maxSteps, cmVars, runVars, regVars, lcCall>>

Next ==
  \/ RunStart \/ LoopExit \/ StepLimit
  \/ PlanningStart \/ PlannerReturns \/ PlannerThrows
  \/ ActingNoPending \/ ActingInvoke \/ LoopToolValidated \/ LoopToolSettled \/ ToolReturns
  \/ Observing
  \/ ReflectingStart \/ ReflectorReturns \/ ReflectorThrows
  \/ SuspendedReturn
  \/ Stop \/ Suspend

Spec == Init /\ [][Next]_vars

\* the steps of run itself: the synchronous stretches of the loop and the
\* continuations of its awaits, without the calls that come from outside
RunSteps ==
  \/ RunStart \/ LoopExit \/ StepLimit
  \/ PlanningStart \/ PlannerReturns \/ PlannerThrows
  \/ ActingNoPending \/ ActingInvoke \/ LoopToolValidated \/ LoopToolSettled \/ ToolReturns
  \/ Observing
  \/ ReflectingStart \/ ReflectorReturns \/ ReflectorThrows
  \/ SuspendedReturn

\* the runs checked for termination: those with maxSteps up to MaxFairSteps.
\* run is called, every awaited promise settles (the Planner, the Reflector
\* and the tool return or throw, the timeout bounds the tool call) and the
\* event loop then runs the continuation; stop and suspend may never come
FairInit == Init /\ maxSteps <= MaxFairSteps

FairSpec == FairInit /\ [][Next]_vars /\ WF_vars(RunSteps)

(***************************************************************************)
(* Two calls of run on one DecisionLoop (SpecTwo).  run does not test      *)
(* isRunning: a second call made while the first is at an await assigns    *)
(* this.lifecycle, this.steps, this.isRunning and this.context anew, and   *)
(* both calls then go on with the same fields.  Nobody calls stop or       *)
(* suspend here, so the SUSPENDED case of the switch is not reached.       *)
(***************************************************************************)
\* config.maxSteps of the loop that is run twice
OverlapMaxSteps == 5

\* what the Planner answers here: no action, or the echo tool once
OverlapPlans == {PlanOf(<<>>), PlanOf(<<[toolId |-> "echo", input |-> "good"]>>)}

InitTwo ==
  /\ tools = BothRegistered(DEFAULT_REGISTRY_CONFIG)
  /\ config = DEFAULT_REGISTRY_CONFIG
  /\ inv = [c \in Callers |-> NoInvocation]
  /\ started = 0
  /\ lifecycle = NewLifecycle
  /\ lcCall = NoCall
  /\ NoRun(OverlapMaxSteps)
  /\ NoContextCalls

\* JavaScript runs one call at a time: r takes a step only when no other call
\* is inside a stretch of code without an await
MayStep(r) == \A q \in RunIds \ {r} : runs[q].pc # "sync"

\* contextManager.update(current, updates): the new context and the manager after it
Updated(m, current, updates) ==
  LET n == m.calls + 1
      ctx == update(current, updates, m.maxRecentResults, n, n)
  IN [ctx |-> ctx,
      manager |-> [m EXCEPT !.history = recordHistory(@, current.sessionId, ctx),
                            !.calls = n]]

\* r goes on at pc = at
TwoGoOn(r, l, ctx, m, stps, em, rec, at) ==
  /\ lifecycle' = l
  /\ context' = ctx
  /\ manager' = m
  /\ steps' = stps
  /\ emitted' = em
  /\ runs' = [runs EXCEPT ![r] = [rec EXCEPT !.pc = at]]
  /\ UNCHANGED isRunning

\* r returns res; the finally block clears isRunning
TwoReturn(r, l, ctx, m, stps, em, rec, res) ==
  /\ lifecycle' = l
  /\ context' = ctx
  /\ manager' = m
  /\ steps' = stps
  /\ emitted' = em
  /\ runs' = [runs EXCEPT ![r] = [rec EXCEPT !.pc = "returned", !.result = res]]
  /\ isRunning' = FALSE

\* an exception reaches the catch block of r
TwoCaught(r, l, message, ctx, m, stps, em, rec) ==
  LET c == runCatch(l, message, stps, ctx)
  IN TwoReturn(r, c.lc, ctx, m, stps, Append(em, "loop:failed"), rec, c.result)

\* a lifecycle call made inside the try block of r
TwoTry(r, out, ctx, m, stps, em, rec, at) ==
  IF out.thrown # "none"
  THEN TwoCaught(r, out.lc, Message(out.thrown), ctx, m, stps, em, rec)
  ELSE TwoGoOn(r, out.lc, ctx, m, stps, em, rec, at)

\* r pushes step: this.steps and the steps r has pushed itself
Pushed(rec, step) == [rec EXCEPT !.pushed = Append(@, step)]

TwoKeeps == UNCHANGED <<pc, ctxHistory, frame, result, maxSteps, obs, cmCall, lcCall,
                        config, inv>>

\* lines 198-222 for call r
TwoRunStart(r) ==
  /\ runs[r].pc = "idle"
  /\ MayStep(r)
  /\ r = "run2" => runs["run1"].pc # "idle"
  /\ LET n == manager.calls + 1
         ctx == create(OptionsOf(runs[r].sessionId), n, n)
         m == [manager EXCEPT !.history = initializeHistory(@, runs[r].sessionId, ctx),
                              !.calls = n]
         out == transition(NewLifecycle, "PLANNING", "Beginning task execution")
     IN /\ lifecycle' = out.lc
        /\ steps' = <<>>
        /\ isRunning' = TRUE
        /\ context' = ctx
        /\ manager' = m
        /\ emitted' = Append(emitted, "loop:start")
        /\ runs' = [runs EXCEPT ![r].pc = "sync"]
  /\ UNCHANGED <<tools, started>>
  /\ TwoKeeps

TwoAtTop(r) == runs[r].pc \in {"top", "sync"} /\ MayStep(r)

\* line 224 for call r: the while condition is false
TwoLoopExit(r) ==
  /\ TwoAtTop(r)
  /\ ~(isRunning /\ ~isTerminal(lifecycle))
  /\ LET res == finalResult(lifecycle, steps, context)
     IN TwoReturn(r, lifecycle, context, manager, steps,
                  Append(emitted, IF res.success THEN "loop:complete" ELSE "loop:failed"),
                  runs[r], res)
  /\ UNCHANGED <<tools, started>>
  /\ TwoKeeps

\* lines 226-229 for call r
TwoStepLimit(r) ==
  /\ TwoAtTop(r)
  /\ isRunning /\ ~isTerminal(lifecycle)
  /\ lifecycle.stepNumber >= maxSteps
  /\ LET l == fail(lifecycle, "Exceeded maximum steps").lc
         res == finalResult(l, steps, context)
     IN TwoReturn(r, l, context, manager, steps, Append(emitted, "loop:failed"),
                  runs[r], res)
  /\ UNCHANGED <<tools, started>>
  /\ TwoKeeps

TwoInPhase(r, phase) ==
  /\ TwoAtTop(r)
  /\ isRunning /\ ~isTerminal(lifecycle)
  /\ lifecycle.stepNumber < maxSteps
  /\ lifecycle.currentPhase = phase

\* executePlanningPhase of call r up to the await of the planner
TwoPlanningStart(r) ==
  /\ TwoInPhase(r, "PLANNING")
  /\ runs' = [runs EXCEPT ![r].pc = "awaitPlanner",
                          ![r].frame = [NoFrame EXCEPT !.stepNumber = lifecycle.stepNumber]]
  /\ emitted' = Append(emitted, "planning:start")
  /\ UNCHANGED <<lifecycle, isRunning, context, steps, manager, tools, started>>
  /\ TwoKeeps

\* executePlanningPhase of call r after the planner returned a plan
TwoPlannerReturns(r) ==
  /\ runs[r].pc = "awaitPlanner"
  /\ MayStep(r)
  /\ \E plan \in OverlapPlans :
       LET u == Updated(manager, context, SetPlan(plan))
           step == createStep(runs[r].frame.stepNumber, "PLANNING", "", "SUCCESS")
       IN TwoTry(r, transition(lifecycle, "ACTING", "Plan created, beginning execution"),
                 u.ctx, u.manager, Append(steps, step),
                 emitted \o <<"loop:step", "planning:complete">>,
                 Pushed(runs[r], step), "top")
  /\ UNCHANGED <<tools, started>>
  /\ TwoKeeps

\* executeActingPhase of call r when there is no plan or no PENDING action
TwoActingNoPending(r) ==
  /\ TwoInPhase(r, "ACTING")
  /\ \/ context.activePlan.isNull
     \/ nextActionIndex(context.activePlan.actions) = 0
  /\ IF context.activePlan.isNull
     THEN TwoGoOn(r, fail(lifecycle, "No active plan").lc,
                  context, manager, steps, emitted, runs[r], "top")
     ELSE TwoTry(r, transition(lifecycle, "OBSERVING", "All planned actions executed"),
                 context, manager, steps, emitted, runs[r], "top")
  /\ UNCHANGED <<tools, started>>
  /\ TwoKeeps

\* executeActingPhase of call r up to the await of toolRegistry.invoke
TwoActingInvoke(r) ==
  /\ TwoInPhase(r, "ACTING")
  /\ ~context.activePlan.isNull
  /\ nextActionIndex(context.activePlan.actions) # 0
  /\ LET plan == context.activePlan
         index == nextActionIndex(plan.actions)
         nextAction == plan.actions[index]
     IN runs' = [runs EXCEPT
                   ![r].pc = "awaitTool",
                   ![r].frame = [stepNumber |-> lifecycle.stepNumber, plan |-> plan,
                                 actionIndex |-> index],
                   ![r].call = invokeBegin(tools, config,
                                           [toolId |-> nextAction.toolId,
                                            input |-> nextAction.input,
                                            skipValidation |-> FALSE])]
  /\ started' = started + 1
  /\ emitted' = Append(emitted, "action:start")
  /\ UNCHANGED <<lifecycle, isRunning, context, steps, manager, tools>>
  /\ TwoKeeps

\* invoke called by r: the await of validateInput is over
TwoToolValidated(r) ==
  /\ runs[r].pc = "awaitTool"
  /\ MayStep(r)
  /\ runs[r].call.stage = "validating"
  /\ runs' = [runs EXCEPT ![r].call = invokeValidated(@)]
  /\ UNCHANGED <<lifecycle, isRunning, context, steps, manager, emitted, tools, started>>
  /\ TwoKeeps

\* invoke called by r: the race of executeWithTimeout is over
TwoToolSettled(r) ==
  /\ runs[r].pc = "awaitTool"
  /\ MayStep(r)
  /\ runs[r].call.stage = "executing"
  /\ \E how \in {"success", "failure"} :
       LET after == invokeSettled(tools, runs[r].call, how)
       IN /\ tools' = after.tools
          /\ runs' = [runs EXCEPT ![r].call = after.call]
  /\ UNCHANGED <<lifecycle, isRunning, context, steps, manager, emitted, started>>
  /\ TwoKeeps

\* executeActingPhase of call r after the await of invoke (lines 394-454)
TwoToolReturns(r) ==
  /\ runs[r].pc = "awaitTool"
  /\ MayStep(r)
  /\ runs[r].call.stage \in {"returned", "rejected"}
  /\ LET toolResult == IF runs[r].call.stage = "returned"
                       THEN runs[r].call.result
                       ELSE ToolResult(FALSE, "EXECUTION_ERROR", TRUE)
         plan == runs[r].frame.plan
         nextAction == plan.actions[runs[r].frame.actionIndex]
         u1 == Updated(manager, context, AddResults(<<toolResult>>))
         newPlan == updatedPlan(plan, nextAction.id, toolResult.success)
         u2 == Updated(u1.manager, u1.ctx, SetPlan(newPlan))
         step == createStep(runs[r].frame.stepNumber, "ACTING", nextAction.toolId,
                            IF toolResult.success THEN "SUCCESS" ELSE "FAILURE")
         em == emitted \o <<"loop:step", "action:complete">>
     IN IF PendingIndexes(newPlan.actions) = {} \/ ~toolResult.success
        THEN TwoTry(r, transition(lifecycle, "OBSERVING", "Proceeding to observation"),
                    u2.ctx, u2.manager, Append(steps, step), em,
                    Pushed(runs[r], step), "top")
        ELSE TwoGoOn(r, lifecycle, u2.ctx, u2.manager, Append(steps, step), em,
                     Pushed(runs[r], step), "top")
  /\ UNCHANGED <<tools, started>>
  /\ TwoKeeps

\* executeObservingPhase of call r
TwoObserving(r) ==
  /\ TwoInPhase(r, "OBSERVING")
  /\ LET step == createStep(lifecycle.stepNumber, "OBSERVING", "", "SUCCESS")
     IN TwoTry(r, transition(lifecycle, "REFLECTING", "Results observed, reflecting"),
               context, manager, Append(steps, step), Append(emitted, "loop:step"),
               Pushed(runs[r], step), "sync")
  /\ UNCHANGED <<tools, started>>
  /\ TwoKeeps

\* executeReflectingPhase of call r up to the await of the reflector
TwoReflectingStart(r) ==
  /\ TwoInPhase(r, "REFLECTING")
  /\ runs' = [runs EXCEPT ![r].pc = "awaitReflector",
                          ![r].frame = [NoFrame EXCEPT !.stepNumber = lifecycle.stepNumber]]
  /\ emitted' = Append(emitted, "reflection:start")
  /\ UNCHANGED <<lifecycle, isRunning, context, steps, manager, tools, started>>
  /\ TwoKeeps

\* executeReflectingPhase of call r after the reflector returned
TwoReflectorReturns(r) ==
  /\ runs[r].pc = "awaitReflector"
  /\ MayStep(r)
  /\ \E d \in Reflections :
       LET step == createStep(runs[r].frame.stepNumber, "REFLECTING", "", "SUCCESS")
       IN TwoTry(r, CASE d = "continue" ->
                         transition(lifecycle, "PLANNING", "Continuing with next iteration")
                      [] d = "success" -> complete(lifecycle, ReflectionReason(d, context))
                      [] OTHER -> fail(lifecycle, ReflectionReason(d, context)),
                 context, manager, Append(steps, step),
                 emitted \o <<"reflection:complete", "loop:step">>,
                 Pushed(runs[r], step), "top")
  /\ UNCHANGED <<tools, started>>
  /\ TwoKeeps

NextTwo ==
  \E r \in RunIds :
    \/ TwoRunStart(r) \/ TwoLoopExit(r) \/ TwoStepLimit(r)
    \/ TwoPlanningStart(r) \/ TwoPlannerReturns(r)
    \/ TwoActingNoPending(r) \/ TwoActingInvoke(r)
    \/ TwoToolValidated(r) \/ TwoToolSettled(r) \/ TwoToolReturns(r)
    \/ TwoObserving(r)
    \/ TwoReflectingStart(r) \/ TwoReflectorReturns(r)

SpecTwo == InitTwo /\ [][NextTwo]_vars

(***************************************************************************)
(* Properties of the Lifecycle Controller (checked under SpecLC)           *)
(***************************************************************************)
\* the transition table as section 4.1 of the specification states it
TableOfSpec(p) ==
  CASE p = "IDLE"       -> {"PLANNING", "SUSPENDED"}
    [] p = "PLANNING"   -> {"ACTING", "REFLECTING", "FAILED", "SUSPENDED"}
    [] p = "ACTING"     -> {"OBSERVING", "FAILED", "SUSPENDED"}
    [] p = "OBSERVING"  -> {"REFLECTING", "FAILED", "SUSPENDED"}
    [] p = "REFLECTING" -> {"PLANNING", "COMPLETE", "FAILED", "SUSPENDED"}
    [] p = "SUSPENDED"  -> {"PLANNING", "FAILED"}
    [] OTHER            -> {}

SameLifecycleState(a, b) ==
  /\ a.currentPhase = b.currentPhase
  /\ a.previousPhase = b.previousPhase
  /\ a.stepNumber = b.stepNumber
  /\ a.phaseHistory = b.phaseHistory

\* C1: from a non-terminal phase p, transition(t) succeeds exactly when t is in
\* p's row of the table, canTransition(t) is true in exactly those cases, and a
\* rejected call throws INVALID_TRANSITION and leaves currentPhase,
\* previousPhase, stepNumber and the phase history as they were.
C1_TransitionFollowsTable ==
  (lcCall.op = "transition" /\ lcCall.pre.currentPhase \notin {"COMPLETE", "FAILED"}) =>
    LET allowed == lcCall.target \in TableOfSpec(lcCall.pre.currentPhase)
    IN /\ (lcCall.thrown = "none") <=> allowed
       /\ lcCall.canBefore <=> allowed
       /\ allowed => lifecycle.currentPhase = lcCall.target
       /\ ~allowed => /\ lcCall.thrown = "INVALID_TRANSITION"
                      /\ SameLifecycleState(lifecycle, lcCall.pre)

C1_Witness ==
  /\ lcCall.op = "transition"
  /\ lcCall.pre.currentPhase = "ACTING"
  /\ lcCall.target = "REFLECTING"
  /\ lcCall.thrown = "INVALID_TRANSITION"
  /\ Len(lifecycle.phaseHistory) = 2

\* C2: once the phase is COMPLETE or FAILED no call changes the controller:
\* transition throws TERMINAL_STATE for every target, fail changes nothing and
\* emits nothing, and complete, suspend and resume leave the state alone too.
C2_TerminalAbsorbing ==
  lcCall.pre.currentPhase \in {"COMPLETE", "FAILED"} =>
    /\ lifecycle = lcCall.pre
    /\ lcCall.op = "transition" => lcCall.thrown = "TERMINAL_STATE"
    /\ lcCall.op = "fail" => (lcCall.thrown = "none" /\ lcCall.events = <<>>)

C2_Witness ==
  /\ lcCall.op = "fail"
  /\ lcCall.pre.currentPhase = "COMPLETE"
  /\ lifecycle.currentPhase = "COMPLETE"

\* C21: suspend succeeds from every phase that is not terminal, SUSPENDED
\* included, and leaves the controller in SUSPENDED; it throws only in
\* COMPLETE and in FAILED.
C21_SuspendFromNonTerminal ==
  lcCall.op = "suspend" =>
    IF lcCall.pre.currentPhase \in {"COMPLETE", "FAILED"}
    THEN lcCall.thrown # "none"
    ELSE lcCall.thrown = "none" /\ lifecycle.currentPhase = "SUSPENDED"

\* C22: resume succeeds exactly when the phase is SUSPENDED and then enters
\* PLANNING, whichever phase was suspended; in any other phase it throws, emits
\* nothing and leaves the controller as it was.
C22_ResumeOnlyFromSuspended ==
  lcCall.op = "resume" =>
    IF lcCall.pre.currentPhase = "SUSPENDED"
    THEN /\ lcCall.thrown = "none"
         /\ lifecycle.currentPhase = "PLANNING"
         /\ lifecycle.previousPhase = "SUSPENDED"
    ELSE /\ lcCall.thrown = "CANNOT_RESUME"
         /\ lcCall.events = <<>>
         /\ lifecycle = lcCall.pre

\* a resume of a controller that was suspended in ACTING
C22_Witness ==
  /\ lcCall.op = "resume"
  /\ lcCall.pre.currentPhase = "SUSPENDED"
  /\ lcCall.pre.previousPhase = "ACTING"
  /\ lifecycle.currentPhase = "PLANNING"

\* C23: complete succeeds exactly when the phase is REFLECTING; in any other
\* phase it throws and leaves the controller as it was; in every state with
\* currentPhase COMPLETE, previousPhase is REFLECTING.
C23_CompleteOnlyFromReflecting ==
  /\ lcCall.op = "complete" =>
       IF lcCall.pre.currentPhase = "REFLECTING"
       THEN lcCall.thrown = "none" /\ lifecycle.currentPhase = "COMPLETE"
       ELSE lcCall.thrown # "none" /\ lifecycle = lcCall.pre
  /\ lifecycle.currentPhase = "COMPLETE" => lifecycle.previousPhase = "REFLECTING"

\* complete has succeeded in REFLECTING, entered from PLANNING
C23_Witness ==
  /\ lcCall.op = "complete"
  /\ lcCall.pre.currentPhase = "REFLECTING"
  /\ lcCall.pre.previousPhase = "PLANNING"
  /\ lifecycle.currentPhase = "COMPLETE"
  /\ lifecycle.previousPhase = "REFLECTING"

\* C24: fail in a phase that is not terminal moves the controller to FAILED
\* with previousPhase the phase it was in, whether or not the table has that
\* transition, and emits the transition event (from, FAILED, reason).
C24_FailFromAnyPhase ==
  (lcCall.op = "fail" /\ lcCall.pre.currentPhase \notin {"COMPLETE", "FAILED"}) =>
    /\ lcCall.thrown = "none"
    /\ lifecycle.currentPhase = "FAILED"
    /\ lifecycle.previousPhase = lcCall.pre.currentPhase
    /\ \E i \in 1..Len(lcCall.events) :
         lcCall.events[i] =
           Event("transition", lcCall.pre.currentPhase, "FAILED", lcCall.reason, "")

\* fail in IDLE, a phase whose row of the table does not hold FAILED
C24_Witness ==
  /\ lcCall.op = "fail"
  /\ lcCall.pre.currentPhase = "IDLE"
  /\ "FAILED" \notin VALID_TRANSITIONS("IDLE")
  /\ lifecycle.currentPhase = "FAILED"

(***************************************************************************)
(* Properties of the Decision Loop (checked under Spec)                    *)
(***************************************************************************)
\* C3: run never ends in an exception: when the Planner or the Reflector
\* throws, run has returned a LoopResult with success = false and the
\* exception's message as reason, and the lifecycle is FAILED; a rejected
\* registry call does not end the run either, it is recorded as a failed
\* ACTING step.
C3_RunReturnsOnStrategyThrow ==
  /\ obs.strategyThrew # "" =>
       /\ pc = "returned"
       /\ lifecycle.currentPhase = "FAILED"
       /\ result.success = FALSE
       /\ result.reason = obs.strategyThrew
  /\ pc = "returned" => result # NoLoopResult
  /\ (inv["loop"].stage = "rejected" /\ pc # "awaitTool") =>
       \E i \in 1..Len(steps) : steps[i].phase = "ACTING" /\ steps[i].outcome = "FAILURE"

C3_Witness ==
  /\ pc = "returned"
  /\ obs.strategyThrew = "reflector error"
  /\ obs.stoppedAt = ""
  /\ lifecycle.previousPhase = "REFLECTING"

\* C4 (as claimed): when the step count reaches maxSteps in a non-terminal
\* phase, run ends with the lifecycle FAILED, success = false and a
\* LoopResult.reason that tells of the step limit.
C4_StepLimitReason ==
  (pc = "returned" /\ obs.stepLimitHit) =>
    /\ lifecycle.currentPhase = "FAILED"
    /\ result.success = FALSE
    /\ result.reason = "Exceeded maximum steps"

\* C5 (as claimed): a suspend() that came in while the run awaited the Planner,
\* a tool or the Reflector makes the run return with the lifecycle SUSPENDED
\* and a result that reports the suspension (here: when no stop came in, no
\* strategy threw and the step limit was not hit).
C5_SuspendEndsSuspended ==
  (/\ pc = "returned"
   /\ obs.suspendedAt \in Awaits
   /\ obs.stoppedAt = ""
   /\ obs.strategyThrew = ""
   /\ ~obs.stepLimitHit) =>
    /\ lifecycle.currentPhase = "SUSPENDED"
    /\ result.reason = "Suspended"

\* C6: after a stop() that came in while the run awaited the Planner, a tool or
\* the Reflector, the run ends with the lifecycle FAILED and success = false,
\* whatever the Reflector answers afterwards; and after a stop no Planner call,
\* tool invocation or Reflector call is started.
C6_StopEndsFailed ==
  /\ ~obs.startedAfterStop
  /\ (pc = "returned" /\ obs.stoppedAt \in Awaits) =>
       /\ lifecycle.currentPhase = "FAILED"
       /\ result.success = FALSE

C6_Witness ==
  /\ pc = "returned"
  /\ obs.stoppedAt = "awaitReflector"
  /\ result.reason = "Cannot complete from phase"
  /\ lifecycle.currentPhase = "FAILED"

\* C7: when run has returned, the phase is COMPLETE, FAILED or SUSPENDED, and
\* success is true exactly when the phase is COMPLETE.
C7_ResultMatchesPhase ==
  pc = "returned" =>
    /\ lifecycle.currentPhase \in {"COMPLETE", "FAILED", "SUSPENDED"}
    /\ result.success <=> lifecycle.currentPhase = "COMPLETE"

C7_Witness ==
  /\ pc = "returned"
  /\ result.success
  /\ lifecycle.currentPhase = "COMPLETE"
  /\ obs.stoppedAt = "top"

(***************************************************************************)
(* Properties of the Tool Registry (checked under SpecReg)                 *)
(***************************************************************************)
\* the call found its tool registered and enabled
Dispatchable(call) == call.stage # "none" /\ call.entry.present /\ call.entry.enabled

\* every permission the tool declares is granted
Permitted(call) == call.entry.definition.permissions \subseteq config.grantedPermissions

Denied(call) ==
  /\ call.stage = "returned"
  /\ call.result = ToolResult(FALSE, "PERMISSION_DENIED", FALSE)

NotRun(call) == ~call.validateCalled /\ ~call.executeCalled

\* C8: a registered, enabled tool that declares a permission that is not
\* granted is never run: neither its validator nor its execute function is
\* called, and invoke returns PERMISSION_DENIED, not recoverable.
C8_UngrantedNeverExecuted ==
  \A c \in Callers :
    (Dispatchable(inv[c]) /\ ~Permitted(inv[c])) => (Denied(inv[c]) /\ NotRun(inv[c]))

C8_Witness ==
  \E c \in Clients :
    /\ Dispatchable(inv[c])
    /\ inv[c].toolId = "reader"
    /\ "FILE_READ" \notin config.grantedPermissions
    /\ inv[c].result.code = "PERMISSION_DENIED"

\* C9: invoke checks exists, enabled, permissions, validation in this order
\* and returns the error of the first check that fails; validation is skipped
\* with skipValidation; execute is called only when every check before passed.
C9_PipelineOrder ==
  \A c \in Callers :
    LET call == inv[c]
        failedWith(code) == call.stage = "returned" /\ call.result.code = code /\ NotRun(call)
    IN call.stage # "none" =>
         /\ ~call.entry.present => failedWith("TOOL_NOT_FOUND")
         /\ (call.entry.present /\ ~call.entry.enabled) => failedWith("TOOL_DISABLED")
         /\ (Dispatchable(call) /\ ~Permitted(call)) => failedWith("PERMISSION_DENIED")
         /\ call.skipValidation => ~call.validateCalled
         /\ (/\ Dispatchable(call) /\ Permitted(call) /\ ~call.skipValidation
             /\ call.entry.definition.hasValidator /\ call.input = "bad") =>
              /\ call.validateCalled
              /\ ~call.executeCalled
              /\ call.stage = "returned" => call.result.code = "VALIDATION_FAILED"
         /\ call.executeCalled =>
              /\ Dispatchable(call) /\ Permitted(call)
              /\ call.skipValidation \/ call.validation = "valid"

C9_Witness ==
  \E c \in Clients :
    /\ inv[c].entry.present /\ ~inv[c].entry.enabled
    /\ ~Permitted(inv[c])
    /\ inv[c].input = "bad"
    /\ inv[c].result.code = "TOOL_DISABLED"

\* C10 (as claimed): the promise of invoke never rejects; every failure,
\* also a throwing execute and a throwing validator, comes back as a
\* ToolResult with success = false and an error.
C10_InvokeNeverRejects ==
  \A c \in Callers :
    /\ inv[c].stage # "rejected"
    /\ inv[c].settledBy = "throws" =>
         inv[c].result = ToolResult(FALSE, "EXECUTION_ERROR", TRUE)

(***************************************************************************)
(* C11: when the timer fires before the tool's execute settles, invoke     *)
(* returns at once a failed, recoverable EXECUTION_ERROR result while the   *)
(* tool is still running; when the tool settles later, the result stays,    *)
(* and the invocation has emitted tool:invoked and tool:failed only (no     *)
(* second result, no tool:completed).                                       *)
(***************************************************************************)
C11_TimeoutResultIsFinal ==
  \A c \in Callers :
    inv[c].settledBy = "timeout" =>
      /\ inv[c].stage = "returned"
      /\ inv[c].result = ToolResult(FALSE, "EXECUTION_ERROR", TRUE)
      /\ inv[c].events = <<"tool:invoked", "tool:failed">>
      /\ inv[c].toolPromise \in {"pending"} \cup LateSettlements

\* a call that timed out, and whose tool completed afterwards
C11_Witness ==
  \E c \in Clients :
    /\ inv[c].settledBy = "timeout"
    /\ inv[c].toolPromise = "resolved"
    /\ inv[c].result.code = "EXECUTION_ERROR"

(***************************************************************************)
(* C12: every invoke on a registered tool, whichever way it ends, adds one  *)
(* to the tool's invocationCount and sets its lastInvokedAt.                *)
(***************************************************************************)
\* the call of caller c returns in this step
ReturnsNow(c) ==
  /\ inv'[c].stage = "returned"
  /\ inv[c].stage \in {"validating", "executing"} \/ (started' # started /\ inv'[c] # inv[c])

C12_EveryInvokeCounts ==
  [][\A c \in Callers :
       (ReturnsNow(c) /\ inv'[c].entry.present) =>
         /\ tools'[inv'[c].toolId].invocationCount =
              tools[inv'[c].toolId].invocationCount + 1
         /\ tools'[inv'[c].toolId].lastInvokedAt = "set"]_vars

(***************************************************************************)
(* C13: when two invocations of one tool are in flight together and both    *)
(* complete successfully, the tool's invocationCount has grown by two: the  *)
(* second to complete adds its own update to that of the first.             *)
(***************************************************************************)
\* d completed successfully a call that was in flight together with c's call
\* (both read the same entry), and d's update is in the catalog
CompletedBeside(c, d) ==
  /\ c # d
  /\ inv[c].stage = "executing"
  /\ inv[d].stage = "returned" /\ inv[d].settledBy = "success"
  /\ inv[d].toolId = inv[c].toolId
  /\ inv[d].entry = inv[c].entry
  /\ tools[inv[c].toolId].present
  /\ tools[inv[c].toolId].invocationCount = inv[c].entry.invocationCount + 1

C13_NoLostMetricsUpdate ==
  [][\A c, d \in Callers :
       (CompletedBeside(c, d) /\ ReturnsNow(c) /\ inv'[c].settledBy = "success") =>
         tools'[inv[c].toolId].invocationCount = inv[c].entry.invocationCount + 2]_vars

(***************************************************************************)
(* C14: in every catalog the registry reaches, register of an id that is    *)
(* registered throws and leaves the catalog (the entry's definition,        *)
(* enabled flag and metrics) as it is; register of a tool whose category is *)
(* outside a non-empty allow-list throws and leaves the catalog as it is;   *)
(* otherwise (an empty allow-list accepts every category) it stores an      *)
(* enabled entry with invocationCount 0 and touches no other entry.         *)
(***************************************************************************)
FreshEntry(definition) ==
  [present |-> TRUE, definition |-> definition, enabled |-> TRUE,
   invocationCount |-> 0, lastInvokedAt |-> "null"]

CategoryRefused(definition) ==
  config.allowedCategories # {} /\ definition.category \notin config.allowedCategories

C14_RegisterContract ==
  \A id \in ToolIds :
    LET definition == ToolDefinitions(id)
        out == register(tools, config, definition)
    IN /\ tools[id].present =>
            out.thrown = "ALREADY_REGISTERED" /\ out.tools = tools
       /\ (~tools[id].present /\ CategoryRefused(definition)) =>
            out.thrown = "CATEGORY_NOT_ALLOWED" /\ out.tools = tools
       /\ (~tools[id].present /\ ~CategoryRefused(definition)) =>
            /\ out.thrown = "none"
            /\ out.tools[id] = FreshEntry(definition)
            /\ \A other \in ToolIds \ {id} : out.tools[other] = tools[other]

\* a registry with an allow-list that refuses the echo tool, holding the reader
\* tool disabled and with an invocation counted: register of either is rejected
C14_Witness ==
  /\ config.allowedCategories = {"FILESYSTEM"}
  /\ tools["reader"].present
  /\ ~tools["reader"].enabled
  /\ tools["reader"].invocationCount > 0
  /\ register(tools, config, ToolDefinitions("reader")).thrown = "ALREADY_REGISTERED"
  /\ register(tools, config, ToolDefinitions("echo")).thrown = "CATEGORY_NOT_ALLOWED"

(***************************************************************************)
(* C15: update(c, u) returns a context with an id other than c.id, version  *)
(* c.version + 1 and the sessionId, intent and createdAt of c; c is as it   *)
(* was: where the session's history held c before the call it holds c,     *)
(* field for field, after it.                                               *)
(***************************************************************************)
C15_UpdateIsNotDestructive ==
  cmCall.op = "update" =>
    LET c == cmCall.current
        u == cmCall.result
        before == cmCall.before[c.sessionId]
        after == getHistory(manager.history, c.sessionId)
    IN /\ u.id # c.id
       /\ u.version = c.version + 1
       /\ u.sessionId = c.sessionId
       /\ u.intent = c.intent
       /\ u.createdAt = c.createdAt
       /\ \A i \in 1..Len(before) :
            before[i].id = c.id => (i <= Len(after) /\ after[i] = c)

\* an update of a context that is itself the result of an update, adding results
\* or facts, made later than the context's creation
C15_Witness ==
  /\ cmCall.op = "update"
  /\ cmCall.current.version = 2
  /\ cmCall.updates.addResults # <<>>
  /\ cmCall.result.updatedAt > cmCall.current.createdAt
  /\ \E i \in 1..Len(cmCall.before[cmCall.current.sessionId]) :
       cmCall.before[cmCall.current.sessionId][i] = cmCall.current

(***************************************************************************)
(* C16: for every maxRecentResults N >= 0, the recentResults of a context   *)
(* update returns are the last N results of those it had and those added,   *)
(* in their order, and all of them when they are fewer than N; no context   *)
(* of a history holds more than N results.                                  *)
(***************************************************************************)
\* the last n elements of a sequence, all of it when it is shorter
LastN(seq, n) ==
  IF Len(seq) <= n THEN seq ELSE [i \in 1..n |-> seq[Len(seq) - n + i]]

C16_RecentResultsBounded ==
  /\ cmCall.op = "update" =>
       cmCall.result.recentResults =
         LastN(cmCall.current.recentResults \o cmCall.updates.addResults,
               manager.maxRecentResults)
  /\ \A s \in SessionIds : \A i \in 1..Len(manager.history[s]) :
       Len(manager.history[s][i].recentResults) <= manager.maxRecentResults

(***************************************************************************)
(* C17: the facts of a context update returns hold one fact for each        *)
(* statement of the facts it had and the facts added, and no other; the     *)
(* fact kept for a statement is the last one with that statement in the     *)
(* facts it had followed by the facts added.                                *)
(***************************************************************************)
\* the last fact of a sequence with this statement
LastWith(facts, statement) ==
  facts[CHOOSE i \in 1..Len(facts) :
          /\ facts[i].statement = statement
          /\ \A j \in (i + 1)..Len(facts) : facts[j].statement # statement]

C17_FactsLastWriteWins ==
  cmCall.op = "update" =>
    LET all == cmCall.current.facts \o cmCall.updates.addFacts
        merged == cmCall.result.facts
    IN /\ \A i, j \in 1..Len(merged) :
            merged[i].statement = merged[j].statement => i = j
       /\ {merged[i].statement : i \in 1..Len(merged)} =
            {all[i].statement : i \in 1..Len(all)}
       /\ \A i \in 1..Len(merged) : merged[i] = LastWith(all, merged[i].statement)

\* an update that adds one statement twice, with different confidence, to a
\* context that holds a third fact with that statement
C17_Witness ==
  /\ cmCall.op = "update"
  /\ Len(cmCall.updates.addFacts) = 2
  /\ cmCall.updates.addFacts[1].statement = cmCall.updates.addFacts[2].statement
  /\ cmCall.updates.addFacts[1] # cmCall.updates.addFacts[2]
  /\ \E i \in 1..Len(cmCall.current.facts) :
       /\ cmCall.current.facts[i].statement = cmCall.updates.addFacts[1].statement
       /\ cmCall.current.facts[i] # cmCall.updates.addFacts[2]
  /\ Len(cmCall.result.facts) = 1

(***************************************************************************)
(* C18: a create or an update appends the context it returns to the history *)
(* of the context's session and leaves every other history as it was: no    *)
(* context a history holds is removed or replaced.                          *)
(***************************************************************************)
C18_HistoryAppendOnly ==
  cmCall.op # "new" =>
    \A s \in SessionIds :
      getHistory(manager.history, s) =
        IF s = cmCall.result.sessionId
        THEN Append(cmCall.before[s], cmCall.result)
        ELSE cmCall.before[s]

(***************************************************************************)
(* C19: a run that nothing disturbs (no stop, no suspend, no exception, no  *)
(* step limit), whose Planner's first plan is one PENDING action for the    *)
(* permission-free echo tool, whose tool call succeeds and whose Reflector  *)
(* stops with isSuccess = true at its first call, returns success = true    *)
(* with the steps PLANNING, ACTING, OBSERVING, REFLECTING and one recent    *)
(* result in the final context.                                             *)
(***************************************************************************)
\* run has returned and nothing from outside, no exception and no step limit
\* came in its way
Undisturbed ==
  /\ pc = "returned"
  /\ obs.stoppedAt = "" /\ obs.suspendedAt = ""
  /\ obs.strategyThrew = "" /\ ~obs.stepLimitHit

\* the plan the Planner returned at its first call
FirstPlan == IF Len(ctxHistory) >= 2 THEN ctxHistory[2].activePlan ELSE NoPlan

PhasesOf(stps) == [i \in 1..Len(stps) |-> stps[i].phase]

OneEchoSuccessScenario ==
  /\ Undisturbed
  /\ FirstPlan = PlanOf(<<[toolId |-> "echo", input |-> "good"]>>)
  /\ checkPermissions(config, ToolDefinitions("echo").permissions).valid
  /\ inv["loop"].settledBy = "success"
  /\ obs.reflections = <<"success">>

C19_OneActionRun ==
  OneEchoSuccessScenario =>
    /\ result.success
    /\ PhasesOf(result.steps) = <<"PLANNING", "ACTING", "OBSERVING", "REFLECTING">>
    /\ Len(result.finalContext.recentResults) = 1
    /\ result.finalContext.recentResults[1].success

C19_Witness ==
  /\ OneEchoSuccessScenario
  /\ lifecycle.currentPhase = "COMPLETE"
  /\ maxSteps > Len(steps)

(***************************************************************************)
(* C20: a run that nothing disturbs, under a configuration that does not    *)
(* grant the reader's permission, whose plan targets only the reader and    *)
(* whose Reflector stops with isSuccess = false at its first call, giving   *)
(* the failed result's error message as its reason, ends in FAILED after    *)
(* one REFLECTING step with that message as the reason of the LoopResult.   *)
(***************************************************************************)
OnlyReaderPlanned ==
  /\ FirstPlan.actions # <<>>
  /\ \A i \in 1..Len(FirstPlan.actions) : FirstPlan.actions[i].toolId = "reader"

PermissionDeniedScenario ==
  /\ Undisturbed
  /\ ~checkPermissions(config, ToolDefinitions("reader").permissions).valid
  /\ OnlyReaderPlanned
  /\ obs.reflections = <<"failure">>

C20_PermissionFailureReason ==
  PermissionDeniedScenario =>
    /\ lifecycle.currentPhase = "FAILED"
    /\ ~result.success
    /\ Cardinality({i \in 1..Len(result.steps) : result.steps[i].phase = "REFLECTING"}) = 1
    /\ result.reason = ActionFailed("PERMISSION_DENIED")

\* what the loop takes as the result of its call: lines 394-411 of index.ts
InFlightResult ==
  IF inv["loop"].stage = "returned"
  THEN inv["loop"].result
  ELSE ToolResult(FALSE, "EXECUTION_ERROR", TRUE)

\* C25: when stop or suspend was called while the loop awaited a tool, the run
\* that has returned still carries that call's outcome: the tool result is the
\* last of finalContext.recentResults, the action's status in the final plan is
\* COMPLETED or FAILED as the result says, and the last step of the result is the
\* ACTING step of that action.
C25_InFlightCallNotPreempted ==
  (pc = "returned" /\ (obs.stoppedAt = "awaitTool" \/ obs.suspendedAt = "awaitTool")) =>
    LET action == frame.plan.actions[frame.actionIndex]
        recent == result.finalContext.recentResults
        final == result.finalContext.activePlan
    IN /\ Len(recent) > 0
       /\ recent[Len(recent)] = InFlightResult
       /\ ~final.isNull
       /\ final.actions[frame.actionIndex].status =
            (IF InFlightResult.success THEN "COMPLETED" ELSE "FAILED")
       /\ Len(result.steps) > 0
       /\ result.steps[Len(result.steps)] =
            createStep(frame.stepNumber, "ACTING", action.toolId,
                       IF InFlightResult.success THEN "SUCCESS" ELSE "FAILURE")

\* stop came while the echo tool was running, and the call then succeeded
C25_Witness ==
  /\ pc = "returned"
  /\ obs.stoppedAt = "awaitTool"
  /\ inv["loop"].stage = "returned"
  /\ inv["loop"].result.success
  /\ result.steps[Len(result.steps)].outcome = "SUCCESS"
  /\ result.finalContext.activePlan.actions[frame.actionIndex].status = "COMPLETED"

(***************************************************************************)
(* C26: the completion of an invocation undoes no catalog change made while *)
(* it was in flight: in the step in which a call of invoke leaves           *)
(* executeWithTimeout and returns, no tool that was absent becomes present  *)
(* and no tool that has(id) excluded becomes one that has(id) includes.     *)
(***************************************************************************)
C26_CompletionKeepsCatalogChange ==
  [][\A c \in Callers :
       (inv[c].stage = "executing" /\ inv'[c].stage = "returned") =>
         \A id \in ToolIds :
           /\ GetEntry(tools', id).present => GetEntry(tools, id).present
           /\ has(tools', id) => has(tools, id)]_vars

\* the number of PENDING actions of the active plan
PendingCount(ctx) ==
  IF ctx.activePlan.isNull THEN 0 ELSE Cardinality(PendingIndexes(ctx.activePlan.actions))

(***************************************************************************)
(* C27: a run that was called returns, whatever maxSteps is and whatever    *)
(* the Planner, the Reflector and the tools answer, because every step of   *)
(* run that leads to the top of the main loop has advanced the lifecycle    *)
(* step counter, reduced the number of PENDING actions of the active plan,  *)
(* or made the loop condition false.                                        *)
(***************************************************************************)
C27_RunTerminates ==
  /\ [][(RunSteps /\ pc' \in {"top", "sync"}) =>
          \/ lifecycle'.stepNumber > lifecycle.stepNumber
          \/ PendingCount(context') < PendingCount(context)
          \/ ~isRunning' \/ isTerminal(lifecycle')]_vars
  /\ (pc # "idle") ~> (pc = "returned")

\* the run went round the loop more than once and ended at the step limit
C27_Witness ==
  /\ pc = "returned"
  /\ obs.stepLimitHit
  /\ Len(obs.reflections) >= 1
  /\ lifecycle.stepNumber >= maxSteps

(***************************************************************************)
(* C28: every step in which run calls the Planner, a tool or the Reflector  *)
(* (the run goes from the loop to an await) starts with the lifecycle step  *)
(* number strictly below maxSteps, and once the step limit was found        *)
(* reached at the top of an iteration the run has returned and calls        *)
(* nothing more.                                                            *)
(***************************************************************************)
C28_CallsOnlyBelowMaxSteps ==
  [][/\ (pc \notin Awaits /\ pc' \in Awaits) => lifecycle.stepNumber < maxSteps
     /\ obs'.stepLimitHit => pc' = "returned"]_vars

\* the Reflector is being called in the last step the limit allows
C28_Witness ==
  /\ pc = "awaitReflector"
  /\ frame.stepNumber = maxSteps - 1
  /\ lifecycle.stepNumber = frame.stepNumber

\* the ACTING steps recorded since the active plan was stored
ActingStepsOfPlan ==
  LET planned == {i \in 1..Len(steps) : steps[i].phase = "PLANNING"}
      last == IF planned = {} THEN 0
              ELSE CHOOSE i \in planned : \A j \in planned : j <= i
  IN SelectSeq(SubSeq(steps, last + 1, Len(steps)), LAMBDA s : s.phase = "ACTING")

(***************************************************************************)
(* C29: the actions of the active plan run in list order, one at a time,    *)
(* whatever their dependsOn and priority say: the action whose call is      *)
(* awaited is PENDING and every action listed before it is not, and the k   *)
(* ACTING steps recorded for the active plan are those of its first k       *)
(* actions, in that order, while the actions from k+1 on are still PENDING. *)
(***************************************************************************)
C29_ActionsInListOrder ==
  /\ pc = "awaitTool" =>
       /\ frame.plan = context.activePlan
       /\ frame.plan.actions[frame.actionIndex].status = "PENDING"
       /\ \A j \in 1..(frame.actionIndex - 1) : frame.plan.actions[j].status # "PENDING"
  /\ ~context.activePlan.isNull =>
       LET actions == context.activePlan.actions
           k == Len(ActingStepsOfPlan)
       IN /\ k <= Len(actions)
          /\ \A i \in 1..Len(actions) :
               IF i <= k
               THEN /\ actions[i].status # "PENDING"
                    /\ ActingStepsOfPlan[i].toolId = actions[i].toolId
               ELSE actions[i].status = "PENDING"

\* both actions of a plan ran, the first although it declares a dependency on
\* the second and has the lower priority
C29_Witness ==
  /\ ~context.activePlan.isNull
  /\ Len(context.activePlan.actions) = 2
  /\ context.activePlan.actions[1].dependsOn = {2}
  /\ context.activePlan.actions[1].toolId # context.activePlan.actions[2].toolId
  /\ Len(ActingStepsOfPlan) = 2
  /\ ActingStepsOfPlan[1].toolId = context.activePlan.actions[1].toolId

(***************************************************************************)
(* C30: within one plan a failed action is the last one executed: every     *)
(* ACTING step of the active plan but the last is a success.  And when      *)
(* executeActingPhase resumes after the await of a tool with the lifecycle  *)
(* still in ACTING (no stop or suspend came during the call), the actions   *)
(* listed after the one that ran stay PENDING, and the loop is in OBSERVING *)
(* if the result is a failure or no PENDING action remains, and still in    *)
(* ACTING otherwise.                                                        *)
(***************************************************************************)
C30_FailureOrLastActionEndsActing ==
  /\ [](\A i \in 1..(Len(ActingStepsOfPlan) - 1) : ActingStepsOfPlan[i].outcome = "SUCCESS")
  /\ [][(pc = "awaitTool" /\ pc' # "awaitTool" /\ lifecycle.currentPhase = "ACTING") =>
          LET actions == context'.activePlan.actions
          IN /\ \A i \in (frame.actionIndex + 1)..Len(actions) : actions[i].status = "PENDING"
             /\ pc' = "top"
             /\ lifecycle'.currentPhase =
                  (IF ~InFlightResult.success \/ PendingCount(context') = 0
                   THEN "OBSERVING" ELSE "ACTING")]_vars

\* the first of two actions failed: the loop is in OBSERVING, the second action
\* is PENDING and was not executed
C30_Witness ==
  /\ lifecycle.currentPhase = "OBSERVING"
  /\ ~context.activePlan.isNull
  /\ Len(context.activePlan.actions) = 2
  /\ context.activePlan.actions[1].status = "FAILED"
  /\ context.activePlan.actions[2].status = "PENDING"
  /\ Len(ActingStepsOfPlan) = 1
  /\ ActingStepsOfPlan[1].outcome = "FAILURE"

(***************************************************************************)
(* C31: the statuses of the active plan change only when an action has been *)
(* executed.  The action run picks is PENDING; when its call has returned,  *)
(* that action alone changes, to COMPLETED when the result succeeded and to *)
(* FAILED when it failed or the registry call threw; and no other step of   *)
(* the run but the storing of a new plan touches the active plan, so a      *)
(* COMPLETED or FAILED action never returns to PENDING and is not picked    *)
(* again.                                                                   *)
(***************************************************************************)
C31_StatusMovesOnceOnExecution ==
  [][/\ (pc # "awaitTool" /\ pc' = "awaitTool") =>
          context.activePlan.actions[frame'.actionIndex].status = "PENDING"
     /\ (pc = "awaitTool" /\ pc' # "awaitTool") =>
          /\ context.activePlan.actions[frame.actionIndex].status = "PENDING"
          /\ context'.activePlan.actions =
               [context.activePlan.actions EXCEPT
                  ![frame.actionIndex].status =
                     IF InFlightResult.success THEN "COMPLETED" ELSE "FAILED"]
     /\ (pc \notin {"idle", "awaitTool", "awaitPlanner"}) =>
          context'.activePlan = context.activePlan]_vars

\* a plan of two actions was executed to its end: the first action is
\* COMPLETED, the second FAILED, and each has one ACTING step
C31_Witness ==
  /\ ~context.activePlan.isNull
  /\ Len(context.activePlan.actions) = 2
  /\ context.activePlan.actions[1].status = "COMPLETED"
  /\ context.activePlan.actions[2].status = "FAILED"
  /\ Len(ActingStepsOfPlan) = 2
  /\ pc = "returned"

\* C32: in the steps of a returned LoopResult the stepNumber values are
\* strictly increasing in append order, so no two steps share a step number.
C32_StepNumbersStrictlyIncrease ==
  pc = "returned" =>
    \A i, j \in 1..Len(result.steps) :
      i < j => result.steps[i].stepNumber < result.steps[j].stepNumber

(***************************************************************************)
(* C33: the step counter of a new controller is 0, and every call leaves it *)
(* one above its value before the call when the call is a transition,       *)
(* complete, resume or suspend that succeeded with a target other than      *)
(* SUSPENDED, and at its value before the call otherwise (entering          *)
(* SUSPENDED, fail, a rejected call): it counts those transitions and never *)
(* decreases.                                                               *)
(***************************************************************************)
C33_StepCounterCountsTransitions ==
  IF lcCall.op = "new"
  THEN lifecycle.stepNumber = 0
  ELSE lifecycle.stepNumber =
         lcCall.pre.stepNumber +
           (IF /\ lcCall.op \in {"transition", "complete", "resume", "suspend"}
               /\ lcCall.thrown = "none"
               /\ lcCall.target # "SUSPENDED"
            THEN 1 ELSE 0)

\* one counted transition, then a suspend and a fail that were not counted
C33_Witness ==
  /\ lcCall.op = "fail"
  /\ lcCall.pre.currentPhase = "SUSPENDED"
  /\ lifecycle.currentPhase = "FAILED"
  /\ lifecycle.stepNumber = 1
  /\ Len(lifecycle.phaseHistory) = 3

\* a call that moved the controller into a phase: a successful transition,
\* complete, suspend or resume, or a fail that was not ignored
Moved == lcCall.op # "new" /\ lcCall.thrown = "none" /\ lifecycle # lcCall.pre

(***************************************************************************)
(* C34: after a call that moved the controller into a phase t, the          *)
(* phaseHistory of getState ends with the open entry of t, carrying the     *)
(* reason that was given, preceded by the closed entry of the phase left.   *)
(***************************************************************************)
C34_HistoryHoldsOpenEntry ==
  Moved =>
    LET h == getState(lifecycle).phaseHistory
    IN /\ Len(h) >= 2
       /\ h[Len(h)].phase = lifecycle.currentPhase
       /\ h[Len(h)].reason = lcCall.reason
       /\ ~h[Len(h)].exited
       /\ h[Len(h) - 1].phase = lcCall.pre.currentPhase
       /\ h[Len(h) - 1].exited

(***************************************************************************)
(* C35: the phase history only grows at its end.  A new controller has an   *)
(* empty history; a call that moved the controller leaves the history it    *)
(* found with one entry appended, the closed entry of the phase that was    *)
(* left; any other call leaves the history as it found it.  Every entry is  *)
(* closed, the first is the entry of IDLE, and the last is the entry of the *)
(* phase the controller was in before the current one.                      *)
(***************************************************************************)
C35_HistoryAppendOnly ==
  LET h == lifecycle.phaseHistory
  IN /\ lcCall.op = "new" => h = <<>>
     /\ Moved =>
          /\ h = Append(lcCall.pre.phaseHistory,
                        [lcCall.pre.currentPhaseEntry EXCEPT !.exited = TRUE])
          /\ h[Len(h)].phase = lcCall.pre.currentPhase
     /\ (lcCall.op # "new" /\ ~Moved) => h = lcCall.pre.phaseHistory
     /\ \A i \in 1..Len(h) : h[i].exited
     /\ Len(h) > 0 => (h[1].phase = "IDLE" /\ h[Len(h)].phase = lifecycle.previousPhase)

\* a call was rejected after two entries had been appended
C35_Witness ==
  /\ lcCall.thrown # "none"
  /\ Len(lifecycle.phaseHistory) = 2
  /\ lifecycle.phaseHistory[2].phase = "PLANNING"
  /\ lifecycle.phaseHistory = lcCall.pre.phaseHistory

(***************************************************************************)
(* C36: a transition from a to b that succeeded (called directly or through *)
(* complete, suspend or resume) emitted exactly three events, in this       *)
(* order: phase:exit for a, transition(a, b, reason), phase:enter for b     *)
(* with that reason.  A call of transition that was rejected emitted one    *)
(* event only, an error event whose code is TERMINAL_STATE or               *)
(* INVALID_TRANSITION, the code of the error it threw.                      *)
(***************************************************************************)
C36_TransitionEventOrder ==
  LET a == lcCall.pre.currentPhase
      b == lcCall.target
      e == lcCall.events
  IN /\ (lcCall.op \in {"transition", "complete", "suspend", "resume"} /\ lcCall.thrown = "none") =>
          /\ Len(e) = 3
          /\ e[1].type = "phase:exit" /\ e[1].phase = a
          /\ e[2] = Event("transition", a, b, lcCall.reason, "")
          /\ e[3] = Event("phase:enter", b, "", lcCall.reason, "")
     /\ (lcCall.op = "transition" /\ lcCall.thrown # "none") =>
          /\ lcCall.thrown \in {"TERMINAL_STATE", "INVALID_TRANSITION"}
          /\ e = <<Event("error", a, b, "", lcCall.thrown)>>
          /\ lifecycle = lcCall.pre

\* a transition out of a terminal phase was rejected
C36_Witness ==
  /\ lcCall.op = "transition"
  /\ lcCall.thrown = "TERMINAL_STATE"
  /\ lcCall.pre.currentPhase = "COMPLETE"
  /\ lcCall.events[1].type = "error"

\* C37: an INVALID_TRANSITION or TERMINAL_STATE error of the lifecycle
\* controller raised inside run leaves run as a thrown error: no run returns a
\* LoopResult made from such an error (one whose reason is the error's message).
C37_LifecycleErrorPropagates ==
  pc = "returned" =>
    result.reason \notin {Message("TERMINAL_STATE"), Message("INVALID_TRANSITION")}

\* the positions of the events of these types among those the loop emitted
EmittedAt(types) == {i \in 1..Len(emitted) : emitted[i] \in types}

LoopEndEvents == {"loop:complete", "loop:failed", "loop:suspended"}

(***************************************************************************)
(* C38: a run emits loop:start once, as its first event; as many loop:step  *)
(* events have been emitted as steps have been appended, at every moment    *)
(* (each step is announced when it is appended, in append order); no end    *)
(* event is emitted before run returns, and when it has returned exactly    *)
(* one of loop:complete, loop:failed and loop:suspended was emitted, as the *)
(* last event, and it is loop:complete exactly when the result's success is *)
(* true.                                                                    *)
(***************************************************************************)
C38_LoopEvents ==
  pc # "idle" =>
    /\ EmittedAt({"loop:start"}) = {1}
    /\ Cardinality(EmittedAt({"loop:step"})) = Len(steps)
    /\ pc # "returned" => EmittedAt(LoopEndEvents) = {}
    /\ pc = "returned" =>
         /\ EmittedAt(LoopEndEvents) = {Len(emitted)}
         /\ result.steps = steps
         /\ emitted[Len(emitted)] = "loop:complete" <=> result.success

\* a run that went through its four phases and completed
C38_Witness ==
  /\ pc = "returned"
  /\ result.success
  /\ emitted[Len(emitted)] = "loop:complete"
  /\ Cardinality(EmittedAt({"loop:step"})) = 4

(***************************************************************************)
(* C39: during a run the context history of the session holds the versions  *)
(* 1, 2, 3, ... in this order, its last entry is the loop's context, and    *)
(* the finalContext of the result is that last entry.  A PLANNING phase     *)
(* that recorded its step raised the version by one, an executed action by  *)
(* two, and no other step of the run changed the context.                   *)
(***************************************************************************)
C39_ContextEvolvesLinearly ==
  /\ [](pc # "idle" =>
          /\ \A i \in 1..Len(ctxHistory) : ctxHistory[i].version = i
          /\ Len(ctxHistory) > 0 /\ ctxHistory[Len(ctxHistory)] = context
          /\ pc = "returned" => result.finalContext = ctxHistory[Len(ctxHistory)])
  /\ [][/\ (pc = "awaitPlanner" /\ steps' # steps) =>
             context'.version = context.version + 1
        /\ (pc = "awaitTool" /\ steps' # steps) =>
             context'.version = context.version + 2
        /\ (pc # "idle" /\ (steps' = steps \/ pc \notin {"awaitPlanner", "awaitTool"})) =>
             (context' = context /\ ctxHistory' = ctxHistory)]_vars

\* a run with one plan of two executed actions: six versions
C39_Witness ==
  /\ pc = "returned"
  /\ result.finalContext.version = 6
  /\ Len(ctxHistory) = 6
  /\ Len(ActingStepsOfPlan) = 2

(***************************************************************************)
(* C40: two calls of run that overlap on one DecisionLoop do not interfere: *)
(* the LoopResult a call returned holds the steps that call pushed, and no  *)
(* others, and its finalContext is a context of the call's own session.     *)
(***************************************************************************)
C40_OverlappingRunsIndependent ==
  \A r \in RunIds :
    runs[r].pc = "returned" =>
      /\ runs[r].result.steps = runs[r].pushed
      /\ runs[r].result.finalContext.sessionId = runs[r].sessionId

====
